---- MODULE Spec2Model ----
(***************************************************************************)
(* Availability scheduling engine of ai-productivity-agent.                *)
(*                                                                         *)
(* Time is counted in whole minutes on the process's local clock: the     *)
(* instant with local date d (an integer day number) and local time h:m is *)
(* d * 1440 + h * 60 + m.  Day d has weekday d % 7, 0 = Sunday.  A date   *)
(* string 'YYYY-MM-DD' is the integer d, a time string 'HH:MM' the pair    *)
(* <<h, m>>.  `tz' is the local clock's offset east of UTC in minutes, so *)
(* the UTC midnight of date d is the instant d * 1440 + tz.  `now' is the  *)
(* minute in which new Date() falls; every other instant the code compares *)
(* it with lies on a whole minute except the end of day 23:59:59.999,     *)
(* which is kept as its minute 23:59 (see EndOfDay).                       *)
(***************************************************************************)
EXTENDS Integers, Sequences, FiniteSets, TLC

VARIABLES tz, now, calendarEvents, goal, args, pc,
          blocks, eventCount, recurringDates, slots,
          slotsByPreference, result, response,
          parsed, rrule, duration, secondResult, elapsed

vars == <<tz, now, calendarEvents, goal, args, pc,
          blocks, eventCount, recurringDates, slots,
          slotsByPreference, result, response,
          parsed, rrule, duration, secondResult, elapsed>>

(* ---------------- bounds of the model ---------------- *)

\* local calendar day on which the queries run
Today == 8
\* largest number of calendar events passed to a search
MaxEvents == 2

planVars == <<slotsByPreference, result, response>>

\* return values of the parser, the rule builder, the duration resolver and of a
\* second planning call, with the clock time elapsed between the two calls
callVars == <<parsed, rrule, duration, secondResult, elapsed>>

(* ---------------- generic helpers ---------------- *)

DayMinutes == 1440

Min(a, b) == IF a <= b THEN a ELSE b

Max(a, b) == IF a >= b THEN a ELSE b

\* Math.ceil(a / b) for a >= 0, b > 0
CeilDiv(a, b) == (a + b - 1) \div b

NULL == "null"

\* goal.deadline = null, among the integer dates
NullDate == -1

(* ---------------- Date construction (JavaScript Date) ---------------- *)

\* new Date(`${date}T${time}:00`): a date-time string without offset is local
DateTimeLocal(date, time) == date * DayMinutes + time[1] * 60 + time[2]

\* new Date('YYYY-MM-DD'): a date-only string is midnight UTC
DateOnlyUTC(date) == date * DayMinutes + tz

\* d.toISOString().split('T')[0]: the UTC calendar date of an instant
ISODate(t) == (t - tz) \div DayMinutes

\* d.setHours(23, 59, 59, 999): end of the local day the instant falls in
EndOfDay(t) == (t \div DayMinutes) * DayMinutes + (DayMinutes - 1)

\* d.setHours(0, 0, 0, 0)
StartOfDay(t) == (t \div DayMinutes) * DayMinutes

(* ---------------- freeTimeDetector.js ---------------- *)

TIME_SLOTS ==
  [morning   |-> [start |-> <<6, 0>>,  end |-> <<12, 0>>],
   afternoon |-> [start |-> <<12, 0>>, end |-> <<18, 0>>],
   evening   |-> [start |-> <<18, 0>>, end |-> <<22, 0>>]]

SlotNames == <<"morning", "afternoon", "evening">>

timeToMinutes(timeString) == timeString[1] * 60 + timeString[2]

minutesToTime(minutes) ==
  LET totalMinutes == minutes % 1440
  IN  <<totalMinutes \div 60, totalMinutes % 60>>

isWeekend(dateString) ==
  LET day == dateString % 7
  IN  day = 0 \/ day = 6

BUFFER == 30

isTooLate_NoBuffer(date, startTime) ==
  DateTimeLocal(date, startTime) <= now

isTooLate_LaterClock(date, startTime) ==
  DateTimeLocal(date, startTime) <= now + BUFFER + (IF pc = "waited" THEN DayMinutes ELSE 0)

isTooLate(date, startTime) ==
  DateTimeLocal(date, startTime) <= now + BUFFER

doTimesOverlap_StartOnly(start1, end1, start2, end2) ==
  ~ ((end1 <= start2) \/ (start1 >= start2))

doTimesOverlap(start1, end1, start2, end2) ==
  LET noOverlap == (end1 <= start2) \/ (start1 >= end2)
  IN  ~ noOverlap

isSlotFree(date, startTime, endTime, events) ==
  LET slotStart == DateTimeLocal(date, startTime)
      slotEnd   == DateTimeLocal(date, endTime)
  IN  \A event \in events :
        ~ doTimesOverlap(slotStart, slotEnd, event.startDateTime, event.endDateTime)

INCREMENT == 30

RECURSIVE FreeBlocksFrom_StrictEnd(_, _, _, _, _, _)
FreeBlocksFrom_StrictEnd(currentMinutes, date, slotName, slotEndMinutes, durationMinutes, events) ==
  IF currentMinutes + durationMinutes < slotEndMinutes
  THEN LET startTime == minutesToTime(currentMinutes)
           endTime   == minutesToTime(currentMinutes + durationMinutes)
           rest      == FreeBlocksFrom_StrictEnd(currentMinutes + INCREMENT, date, slotName,
                                                 slotEndMinutes, durationMinutes, events)
       IN  IF isTooLate(date, startTime)
           THEN rest
           ELSE IF isSlotFree(date, startTime, endTime, events)
                THEN <<[date |-> date, startTime |-> startTime, endTime |-> endTime,
                        slot |-> slotName, durationMinutes |-> durationMinutes]>> \o rest
                ELSE rest
  ELSE <<>>

\* the while loop of findFreeBlocks from currentMinutes on
RECURSIVE FreeBlocksFrom(_, _, _, _, _, _)
FreeBlocksFrom(currentMinutes, date, slotName, slotEndMinutes, durationMinutes, events) ==
  IF currentMinutes + durationMinutes <= slotEndMinutes
  THEN LET startTime == minutesToTime(currentMinutes)
           endTime   == minutesToTime(currentMinutes + durationMinutes)
           rest      == FreeBlocksFrom(currentMinutes + INCREMENT, date, slotName,
                                       slotEndMinutes, durationMinutes, events)
       IN  IF isTooLate(date, startTime)
           THEN rest
           ELSE IF isSlotFree(date, startTime, endTime, events)
                THEN <<[date |-> date, startTime |-> startTime, endTime |-> endTime,
                        slot |-> slotName, durationMinutes |-> durationMinutes]>> \o rest
                ELSE rest
  ELSE <<>>

findFreeBlocks(date, slotName, slotTimes, durationMinutes, events) ==
  LET slotStartMinutes == timeToMinutes(slotTimes.start)
      slotEndMinutes   == timeToMinutes(slotTimes.end)
  IN  IF durationMinutes > (slotEndMinutes - slotStartMinutes)
      THEN <<>>
      ELSE FreeBlocksFrom(slotStartMinutes, date, slotName, slotEndMinutes,
                          durationMinutes, events)

(* ---------------- strings of goal.frequency ---------------- *)

\* the cadence strings the checks draw goal.frequency from; NULL and the empty
\* string are the falsy values
FreqStrings ==
  {"daily", "Daily", "every day", "weekly", "every week",
   "3x per week", "2x per week", "4x per week", "monthly", ""}

\* String.prototype.toLowerCase
toLowerCase(s) ==
  IF s = "Daily" THEN "daily" ELSE IF s = "Hours" THEN "hours" ELSE s

\* String.prototype.includes, for the needles the code looks for
includes(s, needle) ==
  CASE needle = "week" -> s \in {"weekly", "every week", "3x per week", "2x per week",
                                 "4x per week"}
    [] needle = "3"    -> s \in {"3x per week"}
    [] needle = "2"    -> s \in {"2x per week"}
    [] OTHER           -> FALSE

\* JavaScript truthiness of a string-or-null field
Truthy(v) == v # NULL /\ v # ""

isDaily(freq) == freq = "daily" \/ freq = "every day"

isWeekly(freq) == freq = "weekly" \/ freq = "every week"

is3xWeek(freq) == includes(freq, "3") /\ includes(freq, "week")

is2xWeek(freq) == includes(freq, "2") /\ includes(freq, "week")

\* Math.round(a / b) for b > 0: floor(a / b + 1/2)
MathRoundDiv(a, b) == (2 * a + b) \div (2 * b)

(* ---------------- Session Count Planner ---------------- *)

maxEventsFor(freq) ==
  IF isDaily(freq) THEN 28
  ELSE IF isWeekly(freq) THEN 4
  ELSE IF is3xWeek(freq) THEN 12
  ELSE IF is2xWeek(freq) THEN 8
  ELSE 1

\* deadline.setHours(23, 59, 59, 999) on new Date(goal.deadline)
deadlineEndOfDay(deadline) == EndOfDay(DateOnlyUTC(deadline))

eventsBeforeDeadline_NoCap(freq, maxEvents, daysUntilDeadline) ==
  IF isDaily(freq) THEN daysUntilDeadline
  ELSE IF isWeekly(freq) THEN CeilDiv(daysUntilDeadline, 7)
  ELSE IF is3xWeek(freq) THEN CeilDiv(daysUntilDeadline, 7) * 3
  ELSE IF is2xWeek(freq) THEN CeilDiv(daysUntilDeadline, 7) * 2
  ELSE maxEvents

eventsBeforeDeadline(freq, maxEvents, daysUntilDeadline) ==
  IF isDaily(freq) THEN Min(maxEvents, daysUntilDeadline)
  ELSE IF isWeekly(freq) THEN Min(maxEvents, CeilDiv(daysUntilDeadline, 7))
  ELSE IF is3xWeek(freq) THEN Min(maxEvents, CeilDiv(daysUntilDeadline, 7) * 3)
  ELSE IF is2xWeek(freq) THEN Min(maxEvents, CeilDiv(daysUntilDeadline, 7) * 2)
  ELSE maxEvents

calculateEventCount(g, firstDate) ==
  IF ~ Truthy(g.frequency) THEN 1
  ELSE
    LET freq      == toLowerCase(g.frequency)
        maxEvents == maxEventsFor(freq)
    IN  IF g.deadline = NullDate THEN maxEvents
        ELSE
          LET start    == DateTimeLocal(firstDate, <<0, 0>>)
              deadline == deadlineEndOfDay(g.deadline)
              daysUntilDeadline == MathRoundDiv(deadline - start, DayMinutes) + 1
          IN  IF daysUntilDeadline <= 0 THEN 1
              ELSE Max(1, eventsBeforeDeadline(freq, maxEvents, daysUntilDeadline))

(* ---------------- Recurring Date Generator ---------------- *)

\* Array.prototype.indexOf, 0-based, -1 when absent
indexOf(seq, x) ==
  IF \E i \in 1..Len(seq) : seq[i] = x
  THEN (CHOOSE i \in 1..Len(seq) : seq[i] = x /\ \A j \in 1..(i - 1) : seq[j] # x) - 1
  ELSE -1

\* 0-based array access
at(seq, index) == seq[index + 1]

isBeforeDeadline_Ignore(dateStr, deadline) == TRUE

isBeforeDeadline(dateStr, deadline) ==
  IF deadline = NullDate THEN TRUE
  ELSE DateTimeLocal(dateStr, <<0, 0>>) <= deadlineEndOfDay(deadline)

\* the daily loop from iteration i on
RECURSIVE dailyDatesFrom(_, _, _, _, _, _)
dailyDatesFrom(i, dates, startIndex, validDates, deadline, maxCount) ==
  IF i < maxCount /\ (startIndex + i) < Len(validDates)
  THEN LET date == at(validDates, startIndex + i)
       IN  IF isBeforeDeadline(date, deadline)
           THEN dailyDatesFrom(i + 1, Append(dates, date), startIndex, validDates,
                               deadline, maxCount)
           ELSE dates
  ELSE dates

\* the weekly loop from iteration i on
RECURSIVE weeklyDatesFrom(_, _, _, _, _, _)
weeklyDatesFrom(i, dates, startIndex, validDates, deadline, maxCount) ==
  IF i < maxCount
  THEN LET dateIndex == startIndex + (i * 7)
       IN  IF dateIndex < Len(validDates)
           THEN IF isBeforeDeadline(at(validDates, dateIndex), deadline)
                THEN weeklyDatesFrom(i + 1, Append(dates, at(validDates, dateIndex)),
                                     startIndex, validDates, deadline, maxCount)
                ELSE dates
           ELSE weeklyDatesFrom(i + 1, dates, startIndex, validDates, deadline, maxCount)
  ELSE dates

RECURSIVE nxWeekDatesFrom_Consecutive(_, _, _, _, _, _, _, _)
nxWeekDatesFrom_Consecutive(k, dates, perWeek, gap, startIndex, validDates, deadline, maxCount) ==
  IF (k \div perWeek) < CeilDiv(maxCount, perWeek) /\ Len(dates) < maxCount
  THEN LET week      == k \div perWeek
           session   == k % perWeek
           dateIndex == startIndex + (week * 7) + session
       IN  IF dateIndex < Len(validDates)
           THEN IF isBeforeDeadline(at(validDates, dateIndex), deadline)
                THEN nxWeekDatesFrom_Consecutive(k + 1, Append(dates, at(validDates, dateIndex)),
                                                 perWeek, gap, startIndex, validDates, deadline,
                                                 maxCount)
                ELSE dates
           ELSE nxWeekDatesFrom_Consecutive(k + 1, dates, perWeek, gap, startIndex, validDates,
                                            deadline, maxCount)
  ELSE dates

\* the nested week/session loops of the N-per-week branches, flattened:
\* iteration k is week k \div perWeek, session k % perWeek
RECURSIVE nxWeekDatesFrom(_, _, _, _, _, _, _, _)
nxWeekDatesFrom(k, dates, perWeek, gap, startIndex, validDates, deadline, maxCount) ==
  IF (k \div perWeek) < CeilDiv(maxCount, perWeek) /\ Len(dates) < maxCount
  THEN LET week      == k \div perWeek
           session   == k % perWeek
           dateIndex == startIndex + (week * 7) + (session * gap)
       IN  IF dateIndex < Len(validDates)
           THEN IF isBeforeDeadline(at(validDates, dateIndex), deadline)
                THEN nxWeekDatesFrom(k + 1, Append(dates, at(validDates, dateIndex)),
                                     perWeek, gap, startIndex, validDates, deadline, maxCount)
                ELSE dates
           ELSE nxWeekDatesFrom(k + 1, dates, perWeek, gap, startIndex, validDates,
                                deadline, maxCount)
  ELSE dates

getRecurringDates(frequency, firstDate, validDates, deadline, maxCount) ==
  IF ~ Truthy(frequency) THEN <<firstDate>>
  ELSE
    LET freq       == toLowerCase(frequency)
        startIndex == indexOf(validDates, firstDate)
    IN  IF startIndex = -1 THEN <<firstDate>>
        ELSE IF isDaily(freq)
             THEN dailyDatesFrom(0, <<>>, startIndex, validDates, deadline, maxCount)
        ELSE IF isWeekly(freq)
             THEN weeklyDatesFrom(0, <<>>, startIndex, validDates, deadline, maxCount)
        ELSE IF is3xWeek(freq)
             THEN nxWeekDatesFrom(0, <<>>, 3, 2, startIndex, validDates, deadline, maxCount)
        ELSE IF is2xWeek(freq)
             THEN nxWeekDatesFrom(0, <<>>, 2, 3, startIndex, validDates, deadline, maxCount)
        ELSE <<firstDate>>

(* ---------------- date range of detectFreeTimeSlots ---------------- *)

\* options.daysAhead, by default and as the server passes it
DAYS_AHEAD == 28

\* getDateRange: the ISO (UTC) dates of now, now + 1 day, ...
getDateRange(daysAhead) == [i \in 1..daysAhead |-> ISODate(now + (i - 1) * DayMinutes)]

\* Array.prototype.filter(isWeekend)
RECURSIVE filterWeekend(_)
filterWeekend(dates) ==
  IF dates = <<>> THEN <<>>
  ELSE IF isWeekend(Head(dates))
       THEN <<Head(dates)>> \o filterWeekend(Tail(dates))
       ELSE filterWeekend(Tail(dates))

validDatesFor(weekendOnly) ==
  IF weekendOnly THEN filterWeekend(getDateRange(DAYS_AHEAD)) ELSE getDateRange(DAYS_AHEAD)

(* ---------------- Goal Duration Resolver ---------------- *)

\* the unitToMinutes table; 0 stands for a missing key (undefined)
unitToMinutes(unit) ==
  CASE unit \in {"hour", "hours", "hr", "hrs"}          -> 60
    [] unit \in {"minute", "minutes", "min", "mins"}    -> 1
    [] unit \in {"km", "kilometer", "kilometers"}       -> 30
    [] unit \in {"mile", "miles"}                       -> 45
    [] unit \in {"page", "pages"}                       -> 2
    [] unit \in {"chapter", "chapters"}                 -> 30
    [] OTHER                                            -> 0

\* a numeric goal field is absent (null) or 0: both are falsy
NoNumber == 0

calculateDurationMinutes_UnknownSixty(g) ==
  IF g.target_amount = NoNumber \/ ~ Truthy(g.target_unit) THEN 60
  ELSE IF unitToMinutes(toLowerCase(g.target_unit)) # 0
       THEN g.target_amount * unitToMinutes(toLowerCase(g.target_unit))
       ELSE 60

calculateDurationMinutes(g) ==
  IF g.target_amount = NoNumber \/ ~ Truthy(g.target_unit)
  THEN 60
  ELSE LET unit       == toLowerCase(g.target_unit)
           multiplier == IF unitToMinutes(unit) # 0 THEN unitToMinutes(unit) ELSE 60
       IN  g.target_amount * multiplier

(* ---------------- Multi-Session Distributor ---------------- *)

\* Array.prototype.find(s => s.date === date) as an index, 0 when absent
findDate(daySlots, date) ==
  IF \E i \in 1..Len(daySlots) : daySlots[i].date = date
  THEN CHOOSE i \in 1..Len(daySlots) :
         daySlots[i].date = date /\ \A j \in 1..(i - 1) : daySlots[j].date # date
  ELSE 0

\* Array.prototype.slice(0, n)
slice0(seq, n) == SubSeq(seq, 1, Min(n, Len(seq)))

RECURSIVE scanPref_NoSlice(_, _, _, _, _, _)
scanPref_NoSlice(i, pref, validDates, durationMinutes, events, maxSessionsPerDay) ==
  IF i > Len(validDates) THEN <<>>
  ELSE LET date       == validDates[i]
           freeBlocks == findFreeBlocks(date, pref, TIME_SLOTS[pref], durationMinutes, events)
           rest       == scanPref_NoSlice(i + 1, pref, validDates, durationMinutes, events,
                                          maxSessionsPerDay)
       IN  IF Len(freeBlocks) > 0
           THEN <<[date |-> date, slots |-> freeBlocks]>> \o rest
           ELSE rest

\* step 7 for one day-part: the dates of validDates from index i on that have
\* free blocks, each with its first maxSessionsPerDay blocks
RECURSIVE scanPref(_, _, _, _, _, _)
scanPref(i, pref, validDates, durationMinutes, events, maxSessionsPerDay) ==
  IF i > Len(validDates) THEN <<>>
  ELSE LET date       == validDates[i]
           freeBlocks == findFreeBlocks(date, pref, TIME_SLOTS[pref], durationMinutes, events)
           rest       == scanPref(i + 1, pref, validDates, durationMinutes, events,
                                  maxSessionsPerDay)
       IN  IF Len(freeBlocks) > 0
           THEN <<[date |-> date, slots |-> slice0(freeBlocks, maxSessionsPerDay)]>> \o rest
           ELSE rest

weekendOnlyOf(g) ==
  LET timePreferences == IF g.time_preferences = {}
                         THEN {"morning", "afternoon", "evening"}
                         ELSE g.time_preferences
  IN  "weekend" \in timePreferences

timeSlotsToCheckOf(g) ==
  LET timePreferences == IF g.time_preferences = {}
                         THEN {"morning", "afternoon", "evening"}
                         ELSE g.time_preferences
      filtered        == timePreferences \ {"weekend"}
  IN  IF filtered = {} THEN {"morning", "afternoon", "evening"} ELSE filtered

maxSessionsPerDayOf(g) ==
  IF g.max_sessions_per_day # NoNumber THEN g.max_sessions_per_day ELSE 1

scanSlots_SessionDuration(events, g) ==
  LET durationMinutes == IF g.session_duration # NoNumber
                         THEN g.session_duration * 60
                         ELSE calculateDurationMinutes(g)
      validDates      == validDatesFor(weekendOnlyOf(g))
  IN  [pref \in {"morning", "afternoon", "evening"} |->
         scanPref(1, pref, validDates, durationMinutes, events, maxSessionsPerDayOf(g))]

\* steps 1-7 of detectFreeTimeSlots
scanSlots(events, g) ==
  LET durationMinutes == calculateDurationMinutes(g)
      validDates      == validDatesFor(weekendOnlyOf(g))
  IN  [pref \in {"morning", "afternoon", "evening"} |->
         scanPref(1, pref, validDates, durationMinutes, events, maxSessionsPerDayOf(g))]

\* Array.prototype.filter over the fixed order morning, afternoon, evening
RECURSIVE filterNames(_, _)
filterNames(names, keep) ==
  IF names = <<>> THEN <<>>
  ELSE IF Head(names) \in keep
       THEN <<Head(names)>> \o filterNames(Tail(names), keep)
       ELSE filterNames(Tail(names), keep)

preferenceOrder_Fixed(g) == SlotNames

\* the selected day-parts first, then the remaining ones
preferenceOrderOf(g) ==
  LET selected == filterNames(SlotNames, timeSlotsToCheckOf(g))
  IN  selected \o filterNames(SlotNames, {"morning", "afternoon", "evening"}
                                          \ timeSlotsToCheckOf(g))

\* the date of the first day-part in preference order that has any slot
RECURSIVE firstAvailableDateOf(_, _)
firstAvailableDateOf(order, byPref) ==
  IF order = <<>> THEN NullDate
  ELSE IF Len(byPref[Head(order)]) > 0
       THEN byPref[Head(order)][1].date
       ELSE firstAvailableDateOf(Tail(order), byPref)

maxEventCountOf(g, byPref) ==
  LET firstAvailableDate == firstAvailableDateOf(preferenceOrderOf(g), byPref)
  IN  IF firstAvailableDate # NullDate
      THEN calculateEventCount(g, firstAvailableDate)
      ELSE 1

totalSessionsNeededOf(g, maxEventCount) ==
  IF g.session_duration # NoNumber /\ g.target_amount # NoNumber
  THEN CeilDiv(g.target_amount, g.session_duration)
  ELSE maxEventCount

eventOf(slot) ==
  [date |-> slot.date, startTime |-> slot.startTime, endTime |-> slot.endTime,
   durationMinutes |-> slot.durationMinutes]

\* the inner for loop: sessions i.. of one day's slots
RECURSIVE addSessions_NoLimit(_, _, _, _, _)
addSessions_NoLimit(i, events, daySlots, sessionsToAdd, totalSessionsNeeded) ==
  IF i < sessionsToAdd
  THEN addSessions_NoLimit(i + 1, Append(events, eventOf(at(daySlots, i))), daySlots,
                           sessionsToAdd, totalSessionsNeeded)
  ELSE events

RECURSIVE addSessions(_, _, _, _, _)
addSessions(i, events, daySlots, sessionsToAdd, totalSessionsNeeded) ==
  IF i < sessionsToAdd /\ Len(events) < totalSessionsNeeded
  THEN addSessions(i + 1, Append(events, eventOf(at(daySlots, i))), daySlots,
                   sessionsToAdd, totalSessionsNeeded)
  ELSE events

RECURSIVE addAlternative_NoBreak(_, _, _, _, _)
addAlternative_NoBreak(altPrefs, events, pref, date, byPref) ==
  IF altPrefs = <<>> THEN events
  ELSE IF Head(altPrefs) = pref
       THEN addAlternative_NoBreak(Tail(altPrefs), events, pref, date, byPref)
  ELSE LET altDaySlots == byPref[Head(altPrefs)]
           k           == findDate(altDaySlots, date)
       IN  IF k # 0 /\ Len(altDaySlots[k].slots) > 0
           THEN addAlternative_NoBreak(Tail(altPrefs),
                                       Append(events, eventOf(altDaySlots[k].slots[1])),
                                       pref, date, byPref)
           ELSE addAlternative_NoBreak(Tail(altPrefs), events, pref, date, byPref)

\* the fallback loop over the other day-parts of the same date
RECURSIVE addAlternative(_, _, _, _, _)
addAlternative(altPrefs, events, pref, date, byPref) ==
  IF altPrefs = <<>> THEN events
  ELSE IF Head(altPrefs) = pref
       THEN addAlternative(Tail(altPrefs), events, pref, date, byPref)
  ELSE LET altDaySlots == byPref[Head(altPrefs)]
           k           == findDate(altDaySlots, date)
       IN  IF k # 0 /\ Len(altDaySlots[k].slots) > 0
           THEN Append(events, eventOf(altDaySlots[k].slots[1]))
           ELSE addAlternative(Tail(altPrefs), events, pref, date, byPref)

RECURSIVE buildEvents_NoStop(_, _, _, _, _, _, _)
buildEvents_NoStop(i, events, recurring, pref, byPref, g, totalSessionsNeeded) ==
  IF i > Len(recurring) THEN events
  ELSE
    LET date     == recurring[i]
        daySlots == byPref[pref]
        k        == findDate(daySlots, date)
        added ==
          IF k # 0
          THEN addSessions(0, events, daySlots[k].slots,
                           IF Truthy(g.distribution_strategy)
                              /\ g.distribution_strategy = "finish_quickly"
                           THEN Len(daySlots[k].slots)
                           ELSE Min(maxSessionsPerDayOf(g), Len(daySlots[k].slots)),
                           totalSessionsNeeded)
          ELSE addAlternative(SlotNames, events, pref, date, byPref)
    IN  buildEvents_NoStop(i + 1, added, recurring, pref, byPref, g, totalSessionsNeeded)

\* the loop over recurringDates from index i on
RECURSIVE buildEvents(_, _, _, _, _, _, _)
buildEvents(i, events, recurring, pref, byPref, g, totalSessionsNeeded) ==
  IF i > Len(recurring) THEN events
  ELSE
    LET date     == recurring[i]
        daySlots == byPref[pref]
        k        == findDate(daySlots, date)
        distributionStrategy ==
          IF Truthy(g.distribution_strategy) THEN g.distribution_strategy
          ELSE "spread_evenly"
        added ==
          IF k # 0
          THEN LET sessionsToAdd ==
                     IF distributionStrategy = "finish_quickly"
                     THEN Len(daySlots[k].slots)
                     ELSE Min(maxSessionsPerDayOf(g), Len(daySlots[k].slots))
               IN  addSessions(0, events, daySlots[k].slots, sessionsToAdd,
                               totalSessionsNeeded)
          ELSE addAlternative(SlotNames, events, pref, date, byPref)
    IN  IF Len(added) >= totalSessionsNeeded
        THEN added
        ELSE buildEvents(i + 1, added, recurring, pref, byPref, g, totalSessionsNeeded)

\* the loop over preferenceOrder.slice(0, 3)
RECURSIVE buildTimeOptions(_, _, _, _)
buildTimeOptions(order, byPref, g, maxEventCount) ==
  IF order = <<>> THEN <<>>
  ELSE
    LET pref == Head(order)
        rest == buildTimeOptions(Tail(order), byPref, g, maxEventCount)
        daySlots == byPref[pref]
    IN  IF Len(daySlots) = 0 THEN rest
        ELSE
          LET totalSessionsNeeded == totalSessionsNeededOf(g, maxEventCount)
              recurring == getRecurringDates(g.frequency, daySlots[1].date,
                                             validDatesFor(weekendOnlyOf(g)),
                                             g.deadline, maxEventCount)
              events == buildEvents(1, <<>>, recurring, pref, byPref, g, totalSessionsNeeded)
          \* totalMinutes is totalHours of the code (events.length * durationMinutes / 60)
          \* before the division by 60, kept in whole minutes
          IN  IF Len(events) > 0
              THEN <<[timeSlot |-> pref, events |-> events, totalEvents |-> Len(events),
                      totalMinutes |-> Len(events) * calculateDurationMinutes(g)]>> \o rest
              ELSE rest

\* step 8 of detectFreeTimeSlots and its return value
detectResult(g, byPref) ==
  LET maxEventCount == maxEventCountOf(g, byPref)
  IN  [timeOptions |-> buildTimeOptions(slice0(preferenceOrderOf(g), 3), byPref, g,
                                        maxEventCount),
       eventCount  |-> maxEventCount,
       frequency   |-> IF Truthy(g.frequency) THEN g.frequency ELSE "one-time"]

(* ---------------- server.js: POST /api/goals/:goalId/find-slots ---------------- *)

\* step 4: the session length (in hours) the handler reports with
sessionDurationOf(g) ==
  IF g.session_duration # NoNumber /\ g.target_amount # NoNumber
  THEN g.session_duration
  ELSE IF g.target_amount # NoNumber THEN g.target_amount ELSE 1

sessionsNeededOf(g, res) ==
  IF g.session_duration # NoNumber /\ g.target_amount # NoNumber
  THEN CeilDiv(g.target_amount, g.session_duration)
  ELSE IF Truthy(g.frequency) /\ (g.frequency = "daily" \/ g.frequency = "every day")
          /\ g.deadline # NullDate
       THEN LET deadline == deadlineEndOfDay(g.deadline)
                daysUntilDeadline == MathRoundDiv(deadline - now, DayMinutes) + 1
            IN  Max(1, daysUntilDeadline)
       ELSE res.eventCount

sessionsFoundOf_None(res) == 0

\* timeOptions[0]?.events.length || 0
sessionsFoundOf(res) ==
  IF Len(res.timeOptions) > 0 THEN Len(res.timeOptions[1].events) ELSE 0

alternativeOf(slot, prefName) ==
  [date |-> slot.date, startTime |-> slot.startTime, endTime |-> slot.endTime,
   durationMinutes |-> slot.durationMinutes, timePreference |-> prefName]

\* freeBlocks.slice(0, 3).forEach(push) for the day-parts from index p on
RECURSIVE alternativesOfDate(_, _, _, _, _)
alternativesOfDate(p, alternatives, date, durationMinutes, events) ==
  IF p > Len(SlotNames) THEN alternatives
  ELSE LET prefName   == SlotNames[p]
           freeBlocks == slice0(findFreeBlocks(date, prefName, TIME_SLOTS[prefName],
                                               durationMinutes, events), 3)
       IN  alternativesOfDate(p + 1,
             alternatives \o [i \in 1..Len(freeBlocks) |-> alternativeOf(freeBlocks[i], prefName)],
             date, durationMinutes, events)

\* step 5: the loop over allDates, d the instant now + k days
RECURSIVE alternativesFrom(_, _, _, _, _, _)
alternativesFrom(d, alternatives, deadline, missingSessions, durationMinutes, events) ==
  IF d > deadline \/ Len(alternatives) >= missingSessions * 3
  THEN alternatives
  ELSE alternativesFrom(d + DayMinutes,
                        alternativesOfDate(1, alternatives, ISODate(d), durationMinutes, events),
                        deadline, missingSessions, durationMinutes, events)

findSlotsResponse(g, events, res) ==
  LET sessionDuration == sessionDurationOf(g)
      sessionsNeeded  == sessionsNeededOf(g, res)
      sessionsFound   == sessionsFoundOf(res)
      incomplete      == sessionsFound < sessionsNeeded /\ sessionsNeeded > 0
      deadline        == EndOfDay(IF g.deadline # NullDate THEN DateOnlyUTC(g.deadline)
                                  ELSE now + 28 * DayMinutes)
      alternatives    ==
        IF incomplete /\ Len(res.timeOptions) > 0
        THEN alternativesFrom(now, <<>>, deadline, sessionsNeeded - sessionsFound,
                              sessionDuration * 60, events)
        ELSE <<>>
  IN  [timeOptions     |-> res.timeOptions,
       eventCount      |-> res.eventCount,
       frequency       |-> res.frequency,
       incomplete      |-> incomplete,
       sessionsNeeded  |-> sessionsNeeded,
       sessionsFound   |-> sessionsFound,
       missingSessions |-> sessionsNeeded - sessionsFound,
       alternatives    |-> alternatives]

(* ---------------- server.js: ad-hoc slot finder ---------------- *)

\* no timeRange / no targetDate / no deadline argument
NoRange == <<>>

\* slotStart < now, where new Date() has milliseconds and slotStart has none:
\* subMinute = 1 when now lies strictly inside its minute
isPast_ByEnd(slotStart, subMinute) == slotStart + 30 < now

isPast(slotStart, subMinute) ==
  slotStart < now \/ (slotStart = now /\ subMinute = 1)

\* Date.prototype.getHours / getMinutes
getHours(t) == (t % DayMinutes) \div 60

getMinutes(t) == t % 60

hasConflict(slotStart, slotEnd, busySlots) ==
  \E busy \in busySlots : slotStart < busy.endDateTime /\ slotEnd > busy.startDateTime

\* the loops of findAvailableSlots from (day, hour, half) on; half 0 is
\* minute 0 and half 1 minute 30; found is the slots pushed so far
RECURSIVE slotsFrom(_, _, _, _, _, _, _, _, _, _)
slotsFrom(day, hour, half, found, lastDay, workStart, workEnd, duration_minutes, busySlots, subMinute) ==
  IF day > lastDay THEN found
  ELSE IF hour >= workEnd
       THEN slotsFrom(day + 1, workStart, 0, found, lastDay, workStart, workEnd,
                      duration_minutes, busySlots, subMinute)
  ELSE
    LET slotStart    == day * DayMinutes + hour * 60 + half * 30
        slotEnd      == slotStart + duration_minutes
        slotEndHour  == getHours(slotEnd)
        slotEndMinute == getMinutes(slotEnd)
        isBeyondWorkHours ==
          slotEndHour > workEnd \/ (slotEndHour = workEnd /\ slotEndMinute > 0)
        nextHour == IF half = 0 THEN hour ELSE hour + 1
        nextHalf == 1 - half
        pushed   ==
          IF isPast(slotStart, subMinute) \/ isBeyondWorkHours
             \/ hasConflict(slotStart, slotEnd, busySlots)
          THEN found
          ELSE Append(found, [start |-> slotStart, end |-> slotEnd])
    IN  IF Len(pushed) >= 3
        THEN SubSeq(pushed, 1, 3)
        ELSE slotsFrom(day, nextHour, nextHalf, pushed, lastDay, workStart, workEnd,
                       duration_minutes, busySlots, subMinute)

\* deadline is a date or NullDate; timeRange <<workStart, workEnd>> or NoRange;
\* targetDate the local midnight of a day, as parseTimeRequest returns it, or NullDate
findAvailableSlots(duration_minutes, deadline, timeRange, targetDate, busySlots, subMinute) ==
  LET endDate   == IF deadline # NullDate THEN DateOnlyUTC(deadline)
                   ELSE now + 7 * DayMinutes
      workStart == IF timeRange # NoRange THEN timeRange[1] ELSE 9
      workEnd   == IF timeRange # NoRange THEN timeRange[2] ELSE 18
      searchStartDate == StartOfDay(IF targetDate # NullDate THEN targetDate ELSE now)
      searchEndDate   == EndOfDay(IF targetDate # NullDate THEN targetDate ELSE endDate)
  IN  slotsFrom(searchStartDate \div DayMinutes, workStart, 0, <<>>,
                searchEndDate \div DayMinutes, workStart, workEnd,
                duration_minutes, busySlots, subMinute)

(* ---------------- inputs ---------------- *)

\* the process's offset east of UTC: UTC itself and Australia/Sydney (AEST)
TzOffsets == {0, 600}

\* minute of the local day at which a query runs
NowMinutes == {0, 330, 345, 600, 719, 1000}

Nows == {Today * DayMinutes + m : m \in NowMinutes}

At(day, h, m) == day * DayMinutes + h * 60 + m

Event(s, e) == [startDateTime |-> s, endDateTime |-> e]

\* timed events (event.start.dateTime) and an all-day event (event.start.date)
EventPool ==
  { Event(At(Today, 6, 0), At(Today, 7, 0)),
    Event(At(Today, 6, 45), At(Today, 7, 15)),
    Event(At(Today, 17, 30), At(Today, 18, 30)),
    Event(At(Today, 21, 0), At(Today + 1, 6, 30)),
    Event(At(Today + 1, 11, 0), At(Today + 1, 13, 0)),
    Event(DateOnlyUTC(Today + 1), DateOnlyUTC(Today + 2)) }

EventSets == {S \in SUBSET EventPool : Cardinality(S) <= MaxEvents}

\* durationMinutes = target_amount * minutes per unit
Durations == {2, 30, 45, 60, 90, 360, 390}

NoGoal == [frequency |-> NULL, deadline |-> NullDate]

NoArgs == [op |-> "none"]

NoSlots == [pref \in {"morning", "afternoon", "evening"} |-> <<>>]

NoResult == [timeOptions |-> <<>>, eventCount |-> 0, frequency |-> NULL]

NoResponse == [incomplete |-> FALSE]

NoParsed == [date |-> NullDate]

NoRule == [freq |-> NULL]

\* the variables of the calls a specification does not make
OtherCallsIdle ==
  /\ parsed = NoParsed
  /\ rrule = NoRule
  /\ duration = 0
  /\ secondResult = NoResult
  /\ elapsed = 0

(* ---------------- Day-Part Grid Search ---------------- *)

GridArgs ==
  [op : {"findFreeBlocks"}, date : {Today - 1, Today, Today + 1},
   slotName : {"morning", "afternoon", "evening"}, durationMinutes : Durations]

InitGrid ==
  /\ tz \in TzOffsets
  /\ now \in Nows
  /\ calendarEvents \in EventSets
  /\ goal = NoGoal
  /\ args \in GridArgs
  /\ pc = "call"
  /\ blocks = <<>>
  /\ eventCount = 0
  /\ recurringDates = <<>>
  /\ slots = <<>>
  /\ slotsByPreference = NoSlots
  /\ result = NoResult
  /\ response = NoResponse
  /\ OtherCallsIdle

FindFreeBlocksCall ==
  /\ pc = "call"
  /\ args.op = "findFreeBlocks"
  /\ blocks' = findFreeBlocks(args.date, args.slotName, TIME_SLOTS[args.slotName],
                              args.durationMinutes, calendarEvents)
  /\ pc' = "done"
  /\ UNCHANGED <<callVars, tz, now, calendarEvents, goal, args, eventCount, recurringDates, slots, planVars>>

NextGrid == FindFreeBlocksCall

SpecGrid == InitGrid /\ [][NextGrid]_vars

GridDone == pc = "done" /\ args.op = "findFreeBlocks"

BlockStart(b) == DateTimeLocal(b.date, b.startTime)

BlockEnd(b) == DateTimeLocal(b.date, b.endTime)

WindowStart(date, slotName) == DateTimeLocal(date, TIME_SLOTS[slotName].start)

WindowEnd(date, slotName) == DateTimeLocal(date, TIME_SLOTS[slotName].end)

\* C1: no minute of a returned block's half-open range [start, end) lies in
\* the half-open range of a busy interval passed to findFreeBlocks
C1_NoOverlap ==
  GridDone =>
    \A i \in 1..Len(blocks) : \A e \in calendarEvents :
      \A t \in BlockStart(blocks[i])..(BlockEnd(blocks[i]) - 1) :
        ~ (e.startDateTime <= t /\ t < e.endDateTime)

\* a busy interval cuts into the searched window and blocks are still returned
C1_Witness ==
  /\ GridDone
  /\ Len(blocks) > 0
  /\ \E e \in calendarEvents :
       /\ e.startDateTime < WindowEnd(args.date, args.slotName)
       /\ e.endDateTime > WindowStart(args.date, args.slotName)

\* C4: no returned block starts earlier than now + 30 minutes
C4_PastBuffer ==
  GridDone => \A i \in 1..Len(blocks) : BlockStart(blocks[i]) >= now + 30

\* the search runs inside today's window: early candidates are rejected by the
\* buffer and later ones returned
C4_Witness ==
  /\ GridDone
  /\ Len(blocks) > 0
  /\ WindowStart(args.date, args.slotName) <= now + 30
  /\ blocks[1].startTime # TIME_SLOTS[args.slotName].start

(* ---------------- Session Count Planner: checks ---------------- *)

\* furthest deadline, in days after Today
MaxDeadlineAhead == 31

Frequencies == FreqStrings \cup {NULL}

Deadlines == {NullDate} \cup ((Today - 3)..(Today + MaxDeadlineAhead))

CountArgs == [op : {"calculateEventCount"}, firstDate : Today..(Today + 2)]

InitCount ==
  /\ tz \in TzOffsets
  /\ now = Today * DayMinutes
  /\ calendarEvents = {}
  /\ goal \in [frequency : Frequencies, deadline : Deadlines]
  /\ args \in CountArgs
  /\ pc = "call"
  /\ blocks = <<>>
  /\ eventCount = 0
  /\ recurringDates = <<>>
  /\ slots = <<>>
  /\ slotsByPreference = NoSlots
  /\ result = NoResult
  /\ response = NoResponse
  /\ OtherCallsIdle

CalculateEventCountCall ==
  /\ pc = "call"
  /\ args.op = "calculateEventCount"
  /\ eventCount' = calculateEventCount(goal, args.firstDate)
  /\ pc' = "done"
  /\ UNCHANGED <<callVars, tz, now, calendarEvents, goal, args, blocks, recurringDates, slots, planVars>>

NextCount == CalculateEventCountCall

SpecCount == InitCount /\ [][NextCount]_vars

CountDone == pc = "done" /\ args.op = "calculateEventCount"

\* the cadence classes and caps as the planner's contract names them
CadenceOf(f) ==
  CASE f \in {"daily", "Daily", "every day"} -> "daily"
    [] f \in {"weekly", "every week"}         -> "weekly"
    [] f = "3x per week"                      -> "3x/week"
    [] f = "2x per week"                      -> "2x/week"
    [] OTHER                                  -> "none"

CapOf(cadence) ==
  CASE cadence = "daily"   -> 28
    [] cadence = "weekly"  -> 4
    [] cadence = "3x/week" -> 12
    [] cadence = "2x/week" -> 8
    [] OTHER               -> 1

\* calendar days from firstDate through the deadline, both included
InclusiveDays(firstDate, deadline) == deadline - firstDate + 1

\* C7: daily cadence, deadline on or after the first date: the count is the
\* number of calendar days first date..deadline inclusive, capped at 28
C7_DailyInclusiveCount ==
  (/\ CountDone
   /\ CadenceOf(goal.frequency) = "daily"
   /\ goal.deadline # NullDate
   /\ goal.deadline >= args.firstDate)
  => eventCount = Min(28, InclusiveDays(args.firstDate, goal.deadline))

\* C8: N-times-per-week cadence with a deadline on or after the first date:
\* the count is min(4 * N, N * ceil(d / 7)), d the inclusive day count
C8_NxWeekCount ==
  (/\ CountDone
   /\ CadenceOf(goal.frequency) \in {"3x/week", "2x/week"}
   /\ goal.deadline # NullDate
   /\ goal.deadline >= args.firstDate)
  => LET N == IF CadenceOf(goal.frequency) = "3x/week" THEN 3 ELSE 2
         d == InclusiveDays(args.firstDate, goal.deadline)
     IN  eventCount = Min(4 * N, N * CeilDiv(d, 7))

\* C9: the count lies in 1..cap(cadence), and is exactly the cap without deadline
C9_CountWithinCap ==
  CountDone =>
    /\ 1 <= eventCount
    /\ eventCount <= CapOf(CadenceOf(goal.frequency))
    /\ goal.deadline = NullDate => eventCount = CapOf(CadenceOf(goal.frequency))

\* a recurring cadence whose deadline cuts the count below the cap
C9_Witness ==
  /\ CountDone
  /\ CadenceOf(goal.frequency) = "3x/week"
  /\ goal.deadline # NullDate
  /\ goal.deadline < args.firstDate
  /\ eventCount = 1

(* ---------------- Recurring Date Generator: checks ---------------- *)

\* how far into validDates the first dates of a call are drawn from
MaxFirstIndex == 3

DatesArgs ==
  [op : {"getRecurringDates"}, weekendOnly : BOOLEAN,
   firstIndex : 0..MaxFirstIndex, firstAvailableIndex : 0..MaxFirstIndex]

InitDates ==
  /\ tz \in TzOffsets
  /\ now = Today * DayMinutes + 540
  /\ calendarEvents = {}
  /\ goal \in [frequency : Frequencies, deadline : Deadlines]
  /\ args \in DatesArgs
  /\ pc = "call"
  /\ blocks = <<>>
  /\ eventCount = 0
  /\ recurringDates = <<>>
  /\ slots = <<>>
  /\ slotsByPreference = NoSlots
  /\ result = NoResult
  /\ response = NoResponse
  /\ OtherCallsIdle

\* detectFreeTimeSlots lines 485-522: the count is planned from the first
\* available date, the dates are generated from the day-part's own first date
GetRecurringDatesCall ==
  /\ pc = "call"
  /\ args.op = "getRecurringDates"
  /\ LET validDates    == validDatesFor(args.weekendOnly)
         maxEventCount == calculateEventCount(goal, at(validDates, args.firstAvailableIndex))
     IN  /\ eventCount' = maxEventCount
         /\ recurringDates' = getRecurringDates(goal.frequency,
                                                at(validDates, args.firstIndex),
                                                validDates, goal.deadline, maxEventCount)
  /\ pc' = "done"
  /\ UNCHANGED <<callVars, tz, now, calendarEvents, goal, args, blocks, slots, planVars>>

NextDates == GetRecurringDatesCall

SpecDates == InitDates /\ [][NextDates]_vars

DatesDone == pc = "done" /\ args.op = "getRecurringDates"

\* C3 as stated: with a deadline D, every generated date is on or before D,
\* whatever the cadence
C3_DeadlineInclusive ==
  (DatesDone /\ goal.deadline # NullDate)
  => \A i \in 1..Len(recurringDates) : recurringDates[i] <= goal.deadline

\* C3 as amended: with a deadline D and a daily, weekly, 3x/week or 2x/week
\* cadence every generated date is on or before D; with an unrecognized or
\* absent cadence exactly the first date is returned, be it after D or not
C3_DeadlineInclusiveRecurring ==
  (DatesDone /\ goal.deadline # NullDate)
  => IF CadenceOf(goal.frequency) # "none"
     THEN \A i \in 1..Len(recurringDates) : recurringDates[i] <= goal.deadline
     ELSE recurringDates = <<at(validDatesFor(args.weekendOnly), args.firstIndex)>>

\* a daily goal whose deadline ends the generation before the planned count
\* is reached: the deadline's own day is the last date returned
C3_Witness ==
  /\ DatesDone
  /\ CadenceOf(goal.frequency) = "daily"
  /\ goal.deadline # NullDate
  /\ Len(recurringDates) >= 2
  /\ Len(recurringDates) < eventCount
  /\ recurringDates[Len(recurringDates)] = goal.deadline

(* ---------------- ad-hoc slot finder: checks ---------------- *)

\* todo.duration_minutes
SlotDurations == {30, 60, 480}

\* the windows parseTimeRequest produces: day-part words, exact hours
TimeRanges == {<<9, 12>>, <<12, 17>>, <<17, 20>>, <<16, 17>>, <<23, 24>>}

\* POST /schedule passes neither window nor date, /schedule-chat passes both
SlotsArgs ==
  { a \in [op : {"findAvailableSlots"}, duration_minutes : SlotDurations,
           deadline : {NullDate, Today + 1},
           timeRange : TimeRanges \cup {NoRange},
           targetDate : {NullDate, Today * DayMinutes, (Today + 1) * DayMinutes},
           subMinute : {0, 1}] :
      (a.timeRange = NoRange) <=> (a.targetDate = NullDate) }

InitSlots ==
  /\ tz \in TzOffsets
  /\ now \in Nows
  /\ calendarEvents \in EventSets
  /\ goal = NoGoal
  /\ args \in SlotsArgs
  /\ pc = "call"
  /\ blocks = <<>>
  /\ eventCount = 0
  /\ recurringDates = <<>>
  /\ slots = <<>>
  /\ slotsByPreference = NoSlots
  /\ result = NoResult
  /\ response = NoResponse
  /\ OtherCallsIdle

FindAvailableSlotsCall ==
  /\ pc = "call"
  /\ args.op = "findAvailableSlots"
  /\ slots' = findAvailableSlots(args.duration_minutes, args.deadline, args.timeRange,
                                 args.targetDate, calendarEvents, args.subMinute)
  /\ pc' = "done"
  /\ UNCHANGED <<callVars, tz, now, calendarEvents, goal, args, blocks, eventCount, recurringDates, planVars>>

NextSlots == FindAvailableSlotsCall

SpecSlots == InitSlots /\ [][NextSlots]_vars

SlotsDone == pc = "done" /\ args.op = "findAvailableSlots"

\* C5 as stated: no slot of the ad-hoc finder starts earlier than now + 30 minutes
C5_SlotsPastBuffer ==
  SlotsDone => \A i \in 1..Len(slots) : slots[i].start >= now + 30

\* C5 as amended: no slot of the ad-hoc finder starts earlier than now (the
\* finder skips past slots only and keeps no look-ahead buffer)
C5_SlotsNotPast ==
  SlotsDone => \A i \in 1..Len(slots) :
    /\ slots[i].start >= now
    /\ (args.subMinute = 1 => slots[i].start > now)

\* the search runs during the window of the day searched: earlier grid
\* candidates of that day are dropped and a later one is returned
C5_Witness ==
  /\ SlotsDone
  /\ Len(slots) > 0
  /\ slots[1].start \div DayMinutes = now \div DayMinutes
  /\ getHours(now) >= (IF args.timeRange # NoRange THEN args.timeRange[1] ELSE 9)

(* ---------------- planning query: checks ---------------- *)

\* goal.time_preferences
PlanPreferences == {{}, {"morning"}, {"weekend"}, {"evening", "weekend"}}

\* the goals of the planning query: target_amount 2 hours or absent, a session
\* length only with a target, a distribution strategy only with a per-day maximum
PlanGoals ==
  { g \in [frequency : {NULL, "daily", "3x per week"},
           deadline : {NullDate, Today - 1, Today + 6},
           time_preferences : PlanPreferences,
           max_sessions_per_day : {NoNumber, 2},
           target_amount : {NoNumber, 2},
           target_unit : {"hour"},
           session_duration : {NoNumber, 1},
           distribution_strategy : {NULL, "finish_quickly"}] :
      /\ (g.target_amount = NoNumber => g.session_duration = NoNumber)
      /\ (g.max_sessions_per_day = NoNumber => g.distribution_strategy = NULL) }

PlanNows == {Today * DayMinutes + 345, Today * DayMinutes + 1000}

PlanEventSets ==
  { {},
    {Event(At(Today, 6, 0), At(Today, 7, 0))},
    {Event(At(Today + 1, 17, 30), At(Today + 1, 23, 0)),
     Event(DateOnlyUTC(Today + 2), DateOnlyUTC(Today + 3))} }

InitPlan ==
  /\ tz \in TzOffsets
  /\ now \in PlanNows
  /\ calendarEvents \in PlanEventSets
  /\ goal \in PlanGoals
  /\ args = [op |-> "find-slots"]
  /\ pc = "call"
  /\ blocks = <<>>
  /\ eventCount = 0
  /\ recurringDates = <<>>
  /\ slots = <<>>
  /\ slotsByPreference = NoSlots
  /\ result = NoResult
  /\ response = NoResponse
  /\ OtherCallsIdle

\* detectFreeTimeSlots, steps 1-7
DetectScan ==
  /\ pc = "call"
  /\ args.op = "find-slots"
  /\ slotsByPreference' = scanSlots(calendarEvents, goal)
  /\ pc' = "scanned"
  /\ UNCHANGED <<callVars, tz, now, calendarEvents, goal, args, blocks, eventCount, recurringDates,
                 slots, result, response>>

\* detectFreeTimeSlots, step 8 and return
DetectBuild ==
  /\ pc = "scanned"
  /\ result' = detectResult(goal, slotsByPreference)
  /\ pc' = "built"
  /\ UNCHANGED <<callVars, tz, now, calendarEvents, goal, args, blocks, eventCount, recurringDates,
                 slots, slotsByPreference, response>>

\* the handler's steps 4-6
FindSlotsRespond ==
  /\ pc = "built"
  /\ response' = findSlotsResponse(goal, calendarEvents, result)
  /\ pc' = "done"
  /\ UNCHANGED <<callVars, tz, now, calendarEvents, goal, args, blocks, eventCount, recurringDates,
                 slots, slotsByPreference, result>>

NextPlan == DetectScan \/ DetectBuild \/ FindSlotsRespond

SpecPlan == InitPlan /\ [][NextPlan]_vars

PlanBuilt == args.op = "find-slots" /\ pc \in {"built", "done"}

PlanDone == args.op = "find-slots" /\ pc = "done"

TimeOptions == result.timeOptions

EventStart(e) == DateTimeLocal(e.date, e.startTime)

EventEnd(e) == DateTimeLocal(e.date, e.endTime)

\* C2: within one TimeOption no two events overlap in time
C2_SessionsNonOverlapping ==
  PlanBuilt =>
    \A o \in 1..Len(TimeOptions) :
      \A i, j \in 1..Len(TimeOptions[o].events) :
        i < j =>
          LET a == TimeOptions[o].events[i]
              b == TimeOptions[o].events[j]
          IN  EventEnd(a) <= EventStart(b) \/ EventStart(a) >= EventEnd(b)

SelectedDayParts(g) ==
  IF g.time_preferences \ {"weekend"} = {}
  THEN {"morning", "afternoon", "evening"}
  ELSE g.time_preferences \ {"weekend"}

DayPartRank(name) ==
  CASE name = "morning" -> 1 [] name = "afternoon" -> 2 [] name = "evening" -> 3

\* C10 as stated: a day-part the goal did not select never appears as a TimeOption
C10_OnlySelectedDayParts ==
  PlanBuilt =>
    \A o \in 1..Len(TimeOptions) : TimeOptions[o].timeSlot \in SelectedDayParts(goal)

\* C10 as amended: at most one TimeOption per day-part; the selected day-parts
\* come first and the day-parts the goal did not select follow them, each group
\* in the order morning, afternoon, evening
C10_SelectedDayPartsFirst ==
  PlanBuilt =>
    \A i, j \in 1..Len(TimeOptions) :
      i < j =>
        LET a == TimeOptions[i].timeSlot
            b == TimeOptions[j].timeSlot
        IN  /\ a # b
            /\ ~ (a \notin SelectedDayParts(goal) /\ b \in SelectedDayParts(goal))
            /\ ((a \in SelectedDayParts(goal)) = (b \in SelectedDayParts(goal))
                  => DayPartRank(a) < DayPartRank(b))

\* the goal selects the evening only and gets evening, then morning and afternoon
C10_Witness ==
  /\ PlanBuilt
  /\ SelectedDayParts(goal) = {"evening"}
  /\ Len(TimeOptions) = 3
  /\ TimeOptions[1].timeSlot = "evening"
  /\ TimeOptions[2].timeSlot = "morning"

(* ---------------- Multi-Session Distributor: checks ---------------- *)

\* goal.distribution_strategy || 'spread_evenly'
StrategyOf(g) ==
  IF Truthy(g.distribution_strategy) THEN g.distribution_strategy ELSE "spread_evenly"

\* number of events of a TimeOption that lie on a date
EventsOn(option, date) ==
  Cardinality({i \in 1..Len(option.events) : option.events[i].date = date})

\* all free blocks the grid search finds for a date and day-part of the query
BlocksFound(date, pref) ==
  findFreeBlocks(date, pref, TIME_SLOTS[pref], calculateDurationMinutes(goal), calendarEvents)

\* C11: with finish_quickly a TimeOption holds, on its day-part's first date,
\* all free blocks the grid search found there (bounded by totalSessionsNeeded
\* only, so more than maxSessionsPerDay when more blocks exist); with
\* spread_evenly it holds at most maxSessionsPerDay sessions on any date
C11_FinishQuicklyAllBlocks ==
  PlanBuilt =>
    \A o \in 1..Len(TimeOptions) :
      LET option == TimeOptions[o]
          first  == slotsByPreference[option.timeSlot][1].date
      IN  IF StrategyOf(goal) = "finish_quickly"
          THEN EventsOn(option, first)
                 = Min(Len(BlocksFound(first, option.timeSlot)),
                       totalSessionsNeededOf(goal, result.eventCount))
          ELSE \A i \in 1..Len(option.events) :
                 EventsOn(option, option.events[i].date) <= maxSessionsPerDayOf(goal)

(* ---------------- planning query with a booked day-part ---------------- *)

\* a calendar whose events fill one day-part on every date of the horizon
BookedEvents(pref) ==
  { Event(DateTimeLocal(d, TIME_SLOTS[pref].start), DateTimeLocal(d, TIME_SLOTS[pref].end)) :
      d \in (Today - 1)..(Today + DAYS_AHEAD + 1) }

\* the one day-part a goal of BookedGoals prefers
PreferredDayPart(g) == CHOOSE p \in g.time_preferences \ {"weekend"} : TRUE

BookedGoals ==
  { g \in [frequency : {NULL, "daily", "weekly"},
           deadline : {NullDate, Today + 6},
           time_preferences : {{"morning"}, {"evening"}, {"afternoon", "weekend"}},
           max_sessions_per_day : {NoNumber},
           target_amount : {NoNumber, 2},
           target_unit : {"hour"},
           session_duration : {NoNumber, 1},
           distribution_strategy : {NULL}] :
      g.target_amount = NoNumber => g.session_duration = NoNumber }

InitBooked ==
  /\ tz \in TzOffsets
  /\ now \in PlanNows
  /\ goal \in BookedGoals
  /\ calendarEvents = BookedEvents(PreferredDayPart(goal))
  /\ args = [op |-> "find-slots"]
  /\ pc = "call"
  /\ blocks = <<>>
  /\ eventCount = 0
  /\ recurringDates = <<>>
  /\ slots = <<>>
  /\ slotsByPreference = NoSlots
  /\ result = NoResult
  /\ response = NoResponse
  /\ OtherCallsIdle

SpecBooked == InitBooked /\ [][NextPlan]_vars

\* every minute of the day-part's window is busy on every date of the horizon
FullyBooked(pref) ==
  LET validDates == validDatesFor(weekendOnlyOf(goal))
  IN  \A i \in 1..Len(validDates) :
        \E e \in calendarEvents :
          /\ e.startDateTime <= WindowStart(validDates[i], pref)
          /\ e.endDateTime >= WindowEnd(validDates[i], pref)

OthersHaveFreeBlocks(pref) ==
  \E other \in {"morning", "afternoon", "evening"} \ {pref} :
    Len(slotsByPreference[other]) > 0

BookedCase ==
  /\ PlanDone
  /\ Cardinality(SelectedDayParts(goal)) = 1
  /\ FullyBooked(PreferredDayPart(goal))
  /\ OthersHaveFreeBlocks(PreferredDayPart(goal))

C13_AlternativesCap ==
  PlanDone =>
    Len(response.alternatives) <= 3 * (response.sessionsNeeded - response.sessionsFound)

(* ---------------- past deadline: checks ---------------- *)

\* the first date of the horizon on which the scan found a free block
FirstCandidateDate == firstAvailableDateOf(preferenceOrderOf(goal), slotsByPreference)

\* C14: a goal of any cadence whose deadline lies before the first candidate
\* date, on a horizon with at least one free block, gets a best-effort single
\* occurrence: the result holds a TimeOption with exactly one session (stated
\* for goals without a session length, whose sessions come from the cadence)
C14_PastDeadlineSingleOccurrence ==
  (/\ PlanBuilt
   /\ goal.session_duration = NoNumber
   /\ goal.deadline # NullDate
   /\ FirstCandidateDate # NullDate
   /\ goal.deadline < FirstCandidateDate)
  => \E o \in 1..Len(TimeOptions) : Len(TimeOptions[o].events) = 1

(* ---------------- server.js: parseTimeRequest ---------------- *)

\* The input text is the sequence of its lower-case words.  The tables below
\* say, for the words the checks use, what the parser's regular expressions
\* capture in them.

\* monthMap over (jan|feb|...)[a-z]*; -1 when the word does not start a month name
monthMap(word) ==
  CASE word \in {"jan", "january"} -> 0
    [] word \in {"mar", "march"}   -> 2
    [] OTHER                       -> -1

\* parseInt of the (\d{1,2})\b a word starts with; -1 when it starts with none
leadingDay(word) ==
  CASE word = "2" -> 2 [] word = "5" -> 5 [] word = "9" -> 9 [] word = "15:00" -> 15
    [] OTHER -> -1

\* parseInt of the (\d{1,2}) a word ends with; -1 when it ends with none
trailingDay(word) ==
  CASE word = "2" -> 2 [] word = "5" -> 5 [] word = "9" -> 9 [] word = "15:00" -> 0
    [] OTHER -> -1

\* parseInt of a word that is (\d+) as a whole; -1 otherwise
wholeNumber(word) ==
  CASE word = "2" -> 2 [] word = "5" -> 5 [] word = "9" -> 9 [] OTHER -> -1

\* daysOfWeek.indexOf(dayName); -1 for other words
dayOfWeekIndex(word) ==
  CASE word = "sunday" -> 0 [] word = "monday" -> 1 [] word = "tuesday" -> 2
    [] word = "wednesday" -> 3 [] word = "thursday" -> 4 [] word = "friday" -> 5
    [] word = "saturday" -> 6 [] OTHER -> -1

\* (\d{1,2})(:(\d{2}))?\s*(am|pm): the hour after the am/pm adjustment; -1 for
\* a word without am/pm
hour12(word) ==
  CASE word = "3pm" -> 15 [] word = "12am" -> 0 [] word = "12pm" -> 12 [] word = "9am" -> 9
    [] OTHER -> -1

\* (\d{1,2}):(\d{2}): the hour; -1 for other words
hour24(word) ==
  CASE word = "15:00" -> 15 [] word = "9:30" -> 9 [] OTHER -> -1

\* the smallest index of a set of indexes, 0 for the empty set: the position of
\* a regular expression's leftmost match
firstIndex(S) == IF S = {} THEN 0 ELSE CHOOSE i \in S : \A j \in S : i <= j

\* the civil calendar: day 0 is Sunday 1 January 2023
isLeapYear(year) == year % 4 = 0 /\ (year % 100 # 0 \/ year % 400 = 0)

daysInYear(year) == IF isLeapYear(year) THEN 366 ELSE 365

RECURSIVE yearStart(_)
yearStart(year) ==
  IF year = 2023 THEN 0
  ELSE IF year > 2023 THEN yearStart(year - 1) + daysInYear(year - 1)
  ELSE yearStart(year + 1) - daysInYear(year)

daysInMonth(year, month) ==
  IF month = 1 THEN (IF isLeapYear(year) THEN 29 ELSE 28)
  ELSE IF month \in {3, 5, 8, 10} THEN 30 ELSE 31

RECURSIVE daysBeforeMonth(_, _)
daysBeforeMonth(year, month) ==
  IF month = 0 THEN 0 ELSE daysBeforeMonth(year, month - 1) + daysInMonth(year, month - 1)

\* new Date(year, month, day): local midnight; a day outside the month carries over
newDate(year, month, day) ==
  (yearStart(year) + daysBeforeMonth(year, month) + day - 1) * DayMinutes

\* Date.prototype.getFullYear / getMonth / getDate / getDay
getFullYear(t) ==
  CHOOSE year \in 2021..2026 :
    /\ yearStart(year) <= t \div DayMinutes
    /\ t \div DayMinutes < yearStart(year) + daysInYear(year)

getMonth(t) ==
  CHOOSE month \in 0..11 :
    LET first == yearStart(getFullYear(t)) + daysBeforeMonth(getFullYear(t), month)
    IN  first <= t \div DayMinutes /\ t \div DayMinutes < first + daysInMonth(getFullYear(t), month)

getDate(t) ==
  (t \div DayMinutes) - yearStart(getFullYear(t)) - daysBeforeMonth(getFullYear(t), getMonth(t)) + 1

getDay(t) == (t \div DayMinutes) % 7

\* Date.prototype.setFullYear(year), keeping month, day of month and time of day
setFullYear(t, year) == newDate(year, getMonth(t), getDate(t)) + (t % DayMinutes)

\* targetDate < now for a targetDate on a whole minute and the clock reading
\* now, which lies strictly inside its minute when subMinute = 1
isBeforeNow(targetDate, subMinute) ==
  targetDate < now \/ (targetDate = now /\ subMinute = 1)

\* the month/day branches: this year's date, next year's when it is before now
monthDayDate(month, day, subMinute) ==
  LET targetDate == newDate(getFullYear(now), month, day)
  IN  StartOfDay(IF isBeforeNow(targetDate, subMinute)
                 THEN setFullYear(targetDate, getFullYear(targetDate) + 1)
                 ELSE targetDate)

\* positions at which the date expressions match
todayAt(input) == firstIndex({i \in 1..Len(input) : input[i] = "today"})

tomorrowAt(input) == firstIndex({i \in 1..Len(input) : input[i] = "tomorrow"})

inDaysAt(input) ==
  firstIndex({i \in 1..(Len(input) - 2) :
                /\ input[i] = "in"
                /\ wholeNumber(input[i + 1]) # -1
                /\ input[i + 2] \in {"day", "days"}})

dayNameAt(input) == firstIndex({i \in 1..Len(input) : dayOfWeekIndex(input[i]) # -1})

monthDayAt(input) ==
  firstIndex({i \in 1..(Len(input) - 1) :
                monthMap(input[i]) # -1 /\ leadingDay(input[i + 1]) # -1})

dayMonthAt(input) ==
  firstIndex({i \in 1..(Len(input) - 1) :
                trailingDay(input[i]) # -1 /\ monthMap(input[i + 1]) # -1})

\* the "Parse date" chain of parseTimeRequest
parseDate(input, subMinute) ==
  IF todayAt(input) # 0 THEN StartOfDay(now)
  ELSE IF tomorrowAt(input) # 0 THEN StartOfDay(now + DayMinutes)
  ELSE IF inDaysAt(input) # 0
       THEN StartOfDay(now + wholeNumber(input[inDaysAt(input) + 1]) * DayMinutes)
  ELSE IF dayNameAt(input) # 0
       THEN LET targetDayIndex  == dayOfWeekIndex(input[dayNameAt(input)])
                currentDayIndex == getDay(now)
                daysUntilTarget == IF targetDayIndex - currentDayIndex <= 0
                                   THEN targetDayIndex - currentDayIndex + 7
                                   ELSE targetDayIndex - currentDayIndex
            IN  StartOfDay(now + daysUntilTarget * DayMinutes)
  ELSE IF monthDayAt(input) # 0
       THEN LET i == monthDayAt(input)
            IN  monthDayDate(monthMap(input[i]), leadingDay(input[i + 1]), subMinute)
  ELSE IF dayMonthAt(input) # 0
       THEN LET i == dayMonthAt(input)
            IN  monthDayDate(monthMap(input[i + 1]), trailingDay(input[i]), subMinute)
  ELSE StartOfDay(now)

\* positions at which the clock-time expressions match
hour12At(input) == firstIndex({i \in 1..Len(input) : hour12(input[i]) # -1})

hour24At(input) == firstIndex({i \in 1..Len(input) : hour24(input[i]) # -1})

hasWord(input, word) == \E i \in 1..Len(input) : input[i] = word

dayPartRange_Grid(word) ==
  <<TIME_SLOTS[word].start[1], TIME_SLOTS[word].end[1]>>

\* the hour windows of the words morning, afternoon, evening
dayPartRange(word) ==
  CASE word = "morning"   -> <<9, 12>>
    [] word = "afternoon" -> <<12, 17>>
    [] word = "evening"   -> <<17, 20>>

\* the "Parse time" chain of parseTimeRequest
parseTime(input) ==
  IF hour12At(input) # 0
  THEN LET hour == hour12(input[hour12At(input)])
       IN  [timeRange |-> <<hour, hour + 1>>, isExact |-> TRUE]
  ELSE IF hour24At(input) # 0
  THEN LET hour == hour24(input[hour24At(input)])
       IN  [timeRange |-> <<hour, hour + 1>>, isExact |-> TRUE]
  ELSE IF hasWord(input, "morning")
  THEN [timeRange |-> dayPartRange("morning"), isExact |-> FALSE]
  ELSE IF hasWord(input, "afternoon")
  THEN [timeRange |-> dayPartRange("afternoon"), isExact |-> FALSE]
  ELSE IF hasWord(input, "evening")
  THEN [timeRange |-> dayPartRange("evening"), isExact |-> FALSE]
  ELSE [timeRange |-> <<9, 18>>, isExact |-> FALSE]

parseTimeRequest(input, subMinute) ==
  [date      |-> parseDate(input, subMinute),
   timeRange |-> parseTime(input).timeRange,
   isExact   |-> parseTime(input).isExact]

(* ---------------- parseTimeRequest: checks ---------------- *)

\* longest input text, in words
MaxWords == 3

ParseWords ==
  {"today", "tomorrow", "in", "days", "monday", "jan", "mar", "5", "9", "3pm", "15:00",
   "morning", "afternoon", "evening"}

ParseInputs == UNION {[1..n -> ParseWords] : n \in 0..MaxWords}

ParseNowMinutes == {0, 600}

InitParse ==
  /\ tz \in TzOffsets
  /\ now \in {Today * DayMinutes + m : m \in ParseNowMinutes}
  /\ calendarEvents = {}
  /\ goal = NoGoal
  /\ args \in [op : {"parseTimeRequest"}, input : ParseInputs, subMinute : {0, 1}]
  /\ pc = "call"
  /\ blocks = <<>>
  /\ eventCount = 0
  /\ recurringDates = <<>>
  /\ slots = <<>>
  /\ slotsByPreference = NoSlots
  /\ result = NoResult
  /\ response = NoResponse
  /\ parsed = NoParsed
  /\ rrule = NoRule
  /\ duration = 0
  /\ secondResult = NoResult
  /\ elapsed = 0

ParseTimeRequestCall ==
  /\ pc = "call"
  /\ args.op = "parseTimeRequest"
  /\ parsed' = parseTimeRequest(args.input, args.subMinute)
  /\ pc' = "done"
  /\ UNCHANGED <<tz, now, calendarEvents, goal, args, blocks, eventCount, recurringDates,
                 slots, planVars, rrule, duration, secondResult, elapsed>>

NextParse == ParseTimeRequestCall

SpecParse == InitParse /\ [][NextParse]_vars

ParseDone == pc = "done" /\ args.op = "parseTimeRequest"

HasClockTime(input) == \E i \in 1..Len(input) : input[i] \in {"3pm", "15:00"}

\* the first of the words morning, afternoon, evening (in this order) the input holds
DayPartWord(input) ==
  IF hasWord(input, "morning") THEN "morning"
  ELSE IF hasWord(input, "afternoon") THEN "afternoon"
  ELSE IF hasWord(input, "evening") THEN "evening"
  ELSE "none"

DayPartCase == ParseDone /\ ~ HasClockTime(args.input) /\ DayPartWord(args.input) # "none"

\* C15 as stated: a text with the word morning, afternoon or evening (and no
\* clock time) is parsed to the DayPart window 06:00-12:00, 12:00-18:00 or
\* 18:00-22:00 with isExact = false, and "tomorrow afternoon" to tomorrow's
\* date with the window 12:00-18:00
C15_DayPartWindows ==
  DayPartCase =>
    /\ parsed.timeRange = <<TIME_SLOTS[DayPartWord(args.input)].start[1],
                            TIME_SLOTS[DayPartWord(args.input)].end[1]>>
    /\ parsed.isExact = FALSE
    /\ (args.input = <<"tomorrow", "afternoon">>
          => parsed.date = (now \div DayMinutes + 1) * DayMinutes)

\* C15 as amended: such a text is parsed to the hour window 09:00-12:00,
\* 12:00-17:00 or 17:00-20:00 with isExact = false, and "tomorrow afternoon"
\* to tomorrow's date with the window 12:00-17:00
C15_DayPartHourWindows ==
  DayPartCase =>
    /\ parsed.timeRange = (CASE DayPartWord(args.input) = "morning"   -> <<9, 12>>
                             [] DayPartWord(args.input) = "afternoon" -> <<12, 17>>
                             [] DayPartWord(args.input) = "evening"   -> <<17, 20>>)
    /\ parsed.isExact = FALSE
    /\ (args.input = <<"tomorrow", "afternoon">>
          => /\ parsed.date = (now \div DayMinutes + 1) * DayMinutes
             /\ parsed.timeRange = <<12, 17>>)

\* "tomorrow afternoon" has been parsed
C15_Witness ==
  /\ DayPartCase
  /\ args.input = <<"tomorrow", "afternoon">>
  /\ parsed.date = (Today + 1) * DayMinutes
  /\ parsed.timeRange = <<12, 17>>
  /\ ~ parsed.isExact

\* a text that is a month/day literal ("jan 9" or "9 jan"), alone or followed by
\* a time phrase
IsLiteral(input) ==
  /\ Len(input) \in {2, 3}
  /\ \/ (input[1] \in {"jan", "mar"} /\ input[2] \in {"5", "9"})
     \/ (input[1] \in {"5", "9"} /\ input[2] \in {"jan", "mar"})
  /\ (Len(input) = 3 => input[3] \in {"morning", "afternoon", "evening", "3pm"})

LiteralMonth(input) == IF input[1] \in {"jan", "mar"} THEN input[1] ELSE input[2]

LiteralDay(input) == IF "5" \in {input[1], input[2]} THEN 5 ELSE 9

\* the day number of the literal's date in 2023 and in 2024 (a leap year)
LiteralThisYear(input) ==
  IF LiteralMonth(input) = "jan" THEN LiteralDay(input) - 1 ELSE 59 + LiteralDay(input) - 1

LiteralNextYear(input) ==
  IF LiteralMonth(input) = "jan" THEN 365 + LiteralDay(input) - 1
  ELSE 365 + 60 + LiteralDay(input) - 1

\* C16: a month/day literal resolves to that date in the current year unless
\* the date has already passed this year, and then to the same month/day of
\* next year; a literal naming today's date resolves to today at any time of day
C16_MonthDayRollover ==
  (ParseDone /\ IsLiteral(args.input)) =>
    parsed.date = (IF LiteralThisYear(args.input) < now \div DayMinutes
                   THEN LiteralNextYear(args.input)
                   ELSE LiteralThisYear(args.input)) * DayMinutes

(* ---------------- ad-hoc slot finder: earliest candidates ---------------- *)

SearchWorkStart == IF args.timeRange # NoRange THEN args.timeRange[1] ELSE 9

SearchWorkEnd == IF args.timeRange # NoRange THEN args.timeRange[2] ELSE 18

\* the local days of the search range: the target day, or today through the
\* deadline's day (7 days from now without deadline)
SearchDays ==
  IF args.targetDate # NullDate
  THEN {args.targetDate \div DayMinutes}
  ELSE (now \div DayMinutes)..
         (IF args.deadline # NullDate THEN args.deadline
          ELSE (now + 7 * DayMinutes) \div DayMinutes)

\* start instants of the 30-minute grid of the window on the days searched
GridCandidates ==
  {d * DayMinutes + h * 60 + m :
     d \in SearchDays, h \in SearchWorkStart..(SearchWorkEnd - 1), m \in {0, 30}}

\* a candidate is not in the past, ends within its day's window and conflicts
\* with no busy interval
ValidCandidate(start) ==
  /\ start >= now
  /\ (args.subMinute = 1 => start > now)
  /\ start + args.duration_minutes <= (start \div DayMinutes) * DayMinutes + SearchWorkEnd * 60
  /\ \A busy \in calendarEvents :
       ~ (start < busy.endDateTime /\ start + args.duration_minutes > busy.startDateTime)

ValidCandidates == {start \in GridCandidates : ValidCandidate(start)}

\* C17: at most 3 slots are returned, and they are the chronologically earliest
\* grid candidates of the search range that are not in the past, fit the
\* window and conflict with no busy interval
C17_EarliestThree ==
  SlotsDone =>
    /\ Len(slots) <= 3
    /\ Len(slots) = Min(3, Cardinality(ValidCandidates))
    /\ \A i \in 1..Len(slots) :
         /\ slots[i].start \in ValidCandidates
         /\ slots[i].end = slots[i].start + args.duration_minutes
         /\ \A j \in 1..Len(slots) : i < j => slots[i].start < slots[j].start
         /\ \A v \in ValidCandidates :
              v < slots[i].start => \E j \in 1..Len(slots) : slots[j].start = v

(* ---------------- server.js: POST /api/goals/:goalId/schedule-recurring ---------------- *)

\* FOUR_WEEKS_MS, in minutes
FOUR_WEEKS == 28 * DayMinutes

\* Object.values(eventsByDate).some(dayEvents => dayEvents.length > 1)
hasMultiSessionDays(events) ==
  \E i, j \in 1..Len(events) : i # j /\ events[i].date = events[j].date

useIndividualEvents(g, events) ==
  hasMultiSessionDays(events)
    \/ (g.max_sessions_per_day # NoNumber /\ g.max_sessions_per_day > 1)

useUntil_AnyDeadline(g) == g.deadline # NullDate

\* timeUntilDeadline > FOUR_WEEKS_MS: the deadline is 23:59:59.999 of its day,
\* one millisecond before DayMinutes minutes after the day's start, and the clock
\* reading now lies in the minute now (its last millisecond left aside)
useUntil(g) ==
  /\ g.deadline # NullDate
  /\ deadlineEndOfDay(g.deadline) + 1 - now > FOUR_WEEKS

\* deadlineDate.toISOString() as UTC date and minute of the UTC day
untilDateOf(g) ==
  [date    |-> ISODate(deadlineEndOfDay(g.deadline)),
   minutes |-> (deadlineEndOfDay(g.deadline) - tz) % DayMinutes]

NoUntil == [date |-> NullDate, minutes |-> 0]

\* ['SU', 'MO', ...][startDateTime.getDay()]
dayOfWeekCode(t) ==
  <<"SU", "MO", "TU", "WE", "TH", "FR", "SA">>[((t \div DayMinutes) % 7) + 1]

\* the RRULE parts: UNTIL is NoUntil and COUNT is 0 when the part is not written
recurrenceOf(g, events, rruleFreq, byday) ==
  [kind  |-> "recurring",
   freq  |-> rruleFreq,
   until |-> IF useUntil(g) THEN untilDateOf(g) ELSE NoUntil,
   count |-> IF useUntil(g) THEN 0 ELSE Len(events),
   byday |-> byday]

individualEventsOf(events) == [kind |-> "individual", created |-> Len(events)]

scheduleRecurring(g, events) ==
  IF Len(events) = 0 THEN [kind |-> "error", status |-> 400]
  ELSE IF useIndividualEvents(g, events) THEN individualEventsOf(events)
  ELSE
    LET firstEvent    == events[1]
        startDateTime == DateTimeLocal(firstEvent.date, firstEvent.startTime)
        freq          == toLowerCase(IF Truthy(g.frequency) THEN g.frequency ELSE "")
    IN  IF isDaily(freq) THEN recurrenceOf(g, events, "DAILY", <<>>)
        ELSE IF isWeekly(freq)
             THEN recurrenceOf(g, events, "WEEKLY", <<dayOfWeekCode(startDateTime)>>)
        ELSE IF is3xWeek(freq)
             THEN recurrenceOf(g, events, "WEEKLY", <<"MO", "WE", "FR">>)
        ELSE IF is2xWeek(freq)
             THEN recurrenceOf(g, events, "WEEKLY", <<"MO", "TH">>)
        ELSE individualEventsOf(events)

(* ---------------- Recurrence Descriptor Builder: checks ---------------- *)

Session(date, h) ==
  [date |-> date, startTime |-> <<h, 0>>, endTime |-> <<h + 1, 0>>, durationMinutes |-> 60]

\* the sessions a client submits: those of a TimeOption it was offered
SubmittedEvents ==
  { <<>>,
    <<Session(Today + 1, 6)>>,
    <<Session(Today + 1, 6), Session(Today + 2, 6)>>,
    <<Session(Today + 1, 6), Session(Today + 1, 7)>>,
    <<Session(Today + 1, 18), Session(Today + 3, 18), Session(Today + 5, 18)>> }

\* deadlines around four weeks from today
RuleDeadlines ==
  {NullDate, Today - 1, Today + 6, Today + 27, Today + 28, Today + MaxDeadlineAhead}

RuleGoals ==
  [frequency : Frequencies, deadline : RuleDeadlines, max_sessions_per_day : {NoNumber, 1, 2}]

InitRule ==
  /\ tz \in TzOffsets
  /\ now \in Nows
  /\ calendarEvents = {}
  /\ goal \in RuleGoals
  /\ args \in [op : {"schedule-recurring"}, events : SubmittedEvents]
  /\ pc = "call"
  /\ blocks = <<>>
  /\ eventCount = 0
  /\ recurringDates = <<>>
  /\ slots = <<>>
  /\ slotsByPreference = NoSlots
  /\ result = NoResult
  /\ response = NoResponse
  /\ parsed = NoParsed
  /\ rrule = NoRule
  /\ duration = 0
  /\ secondResult = NoResult
  /\ elapsed = 0

ScheduleRecurring ==
  /\ pc = "call"
  /\ args.op = "schedule-recurring"
  /\ rrule' = scheduleRecurring(goal, args.events)
  /\ pc' = "done"
  /\ UNCHANGED <<tz, now, calendarEvents, goal, args, blocks, eventCount, recurringDates,
                 slots, planVars, parsed, duration, secondResult, elapsed>>

NextRule == ScheduleRecurring

SpecRule == InitRule /\ [][NextRule]_vars

RuleBuilt ==
  pc = "done" /\ args.op = "schedule-recurring" /\ rrule.kind = "recurring"

\* the deadline, the end of its civil day, lies more than 28 days after now
DeadlineBeyondFourWeeks ==
  /\ goal.deadline # NullDate
  /\ (goal.deadline + 1) * DayMinutes - now > 28 * DayMinutes

\* C18: a rule built for a daily, weekly, 3x/week or 2x/week goal carries UNTIL
\* (the end of the deadline's day) exactly when the goal has a deadline more
\* than 28 days after now, and otherwise COUNT = number of submitted sessions;
\* it never carries both bounds or neither
C18_UntilOrCount ==
  RuleBuilt =>
    /\ CadenceOf(goal.frequency) \in {"daily", "weekly", "3x/week", "2x/week"}
    /\ (rrule.until # NoUntil) = DeadlineBeyondFourWeeks
    /\ (rrule.until # NoUntil) # (rrule.count # 0)
    /\ (rrule.until # NoUntil =>
          /\ rrule.until.date * DayMinutes + rrule.until.minutes
               = goal.deadline * DayMinutes + (DayMinutes - 1) - tz)
    /\ (rrule.until = NoUntil => rrule.count = Len(args.events))

\* a deadline exactly 28 days after today: its day ends more than 28 days after
\* now and the rule is bounded by UNTIL
C18_Witness ==
  /\ RuleBuilt
  /\ goal.deadline = Today + 28
  /\ rrule.until # NoUntil
  /\ rrule.count = 0

(* ---------------- Goal Duration Resolver: checks ---------------- *)

TargetAmounts == {NoNumber, 1, 2, 3, 5, 10, 30}

\* units of the table in both letter cases, units it does not hold, and the
\* falsy values null and ''
TargetUnits ==
  {NULL, "", "hour", "Hours", "hrs", "min", "minutes", "km", "mile", "pages", "chapter",
   "pushups", "sessions"}

InitDuration ==
  /\ tz \in TzOffsets
  /\ now = Today * DayMinutes
  /\ calendarEvents = {}
  /\ goal \in [target_amount : TargetAmounts, target_unit : TargetUnits]
  /\ args = [op |-> "calculateDurationMinutes"]
  /\ pc = "call"
  /\ blocks = <<>>
  /\ eventCount = 0
  /\ recurringDates = <<>>
  /\ slots = <<>>
  /\ slotsByPreference = NoSlots
  /\ result = NoResult
  /\ response = NoResponse
  /\ parsed = NoParsed
  /\ rrule = NoRule
  /\ duration = 0
  /\ secondResult = NoResult
  /\ elapsed = 0

CalculateDurationMinutesCall ==
  /\ pc = "call"
  /\ args.op = "calculateDurationMinutes"
  /\ duration' = calculateDurationMinutes(goal)
  /\ pc' = "done"
  /\ UNCHANGED <<tz, now, calendarEvents, goal, args, blocks, eventCount, recurringDates,
                 slots, planVars, parsed, rrule, secondResult, elapsed>>

NextDuration == CalculateDurationMinutesCall

SpecDuration == InitDuration /\ [][NextDuration]_vars

DurationDone == pc = "done" /\ args.op = "calculateDurationMinutes"

\* the units of the resolver's table, whatever their letter case
KnownUnits ==
  {"hour", "Hours", "hrs", "min", "minutes", "km", "mile", "pages", "chapter"}

AmountAbsent == goal.target_amount = NoNumber

UnitAbsent == goal.target_unit \in {NULL, ""}

UnitUnknown == ~ UnitAbsent /\ goal.target_unit \notin KnownUnits

\* C19 as stated: the resolver returns 60 minutes whenever the target unit is
\* unknown or absent or the target amount is absent
C19_DefaultSixty ==
  (DurationDone /\ (AmountAbsent \/ UnitAbsent \/ UnitUnknown)) => duration = 60

\* C19 as amended: the resolver returns 60 minutes whenever the target amount
\* or the target unit is absent; for an unknown unit with an amount it counts
\* 60 minutes per unit and returns amount * 60; it always returns a duration
C19_DefaultSixtyPerUnit ==
  DurationDone =>
    /\ ((AmountAbsent \/ UnitAbsent) => duration = 60)
    /\ ((UnitUnknown /\ ~ AmountAbsent) => duration = goal.target_amount * 60)
    /\ duration > 0

\* 5 pushups: an unknown unit with an amount
C19_Witness ==
  /\ DurationDone
  /\ goal.target_unit = "pushups"
  /\ goal.target_amount = 5
  /\ duration = 300

(* ---------------- two planning calls ---------------- *)

\* minutes the clock may advance between the two calls
ClockSteps == {0, 15, 60}

TwiceGoals ==
  { g \in PlanGoals :
      /\ g.frequency \in {NULL, "daily"}
      /\ g.deadline \in {NullDate, Today + 6}
      /\ g.time_preferences \in {{}, {"evening", "weekend"}}
      /\ g.distribution_strategy = NULL
      /\ g.target_amount = NoNumber }

InitTwice ==
  /\ tz \in TzOffsets
  /\ now \in PlanNows
  /\ calendarEvents \in {{}, {Event(At(Today, 6, 0), At(Today, 7, 0))}}
  /\ goal \in TwiceGoals
  /\ args = [op |-> "plan-twice"]
  /\ pc = "call"
  /\ blocks = <<>>
  /\ eventCount = 0
  /\ recurringDates = <<>>
  /\ slots = <<>>
  /\ slotsByPreference = NoSlots
  /\ result = NoResult
  /\ response = NoResponse
  /\ parsed = NoParsed
  /\ rrule = NoRule
  /\ duration = 0
  /\ secondResult = NoResult
  /\ elapsed = 0

\* detectFreeTimeSlots(calendarEvents, goal), first call
DetectFirst ==
  /\ pc = "call"
  /\ args.op = "plan-twice"
  /\ slotsByPreference' = scanSlots(calendarEvents, goal)
  /\ result' = detectResult(goal, slotsByPreference')
  /\ pc' = "first"
  /\ UNCHANGED <<tz, now, calendarEvents, goal, args, blocks, eventCount, recurringDates,
                 slots, response, callVars>>

\* the clock between the calls: new Date() of the second call reads now + step
ClockAdvance ==
  /\ pc = "first"
  /\ \E step \in ClockSteps :
       /\ now' = now + step
       /\ elapsed' = step
  /\ pc' = "waited"
  /\ UNCHANGED <<tz, calendarEvents, goal, args, blocks, eventCount, recurringDates,
                 slots, planVars, parsed, rrule, duration, secondResult>>

\* detectFreeTimeSlots(calendarEvents, goal), second call with the same arguments
DetectSecond ==
  /\ pc = "waited"
  /\ secondResult' = detectResult(goal, scanSlots(calendarEvents, goal))
  /\ pc' = "done"
  /\ UNCHANGED <<tz, now, calendarEvents, goal, args, blocks, eventCount, recurringDates,
                 slots, planVars, parsed, rrule, duration, elapsed>>

NextTwice == DetectFirst \/ ClockAdvance \/ DetectSecond

SpecTwice == InitTwice /\ [][NextTwice]_vars

TwiceDone == pc = "done" /\ args.op = "plan-twice"

ExpectedStarts ==
  LET windowStart == WindowStart(args.date, args.slotName)
      windowEnd   == WindowEnd(args.date, args.slotName)
  IN  { s \in windowStart..windowEnd :
          /\ (s - windowStart) % 30 = 0
          /\ s + args.durationMinutes <= windowEnd
          /\ s > now + 30
          /\ \A e \in calendarEvents :
               ~ (s < e.endDateTime /\ s + args.durationMinutes > e.startDateTime) }

\* C21: findFreeBlocks returns, in increasing start order, exactly the grid
\* candidates windowStart + 30k that end within the window, pass the look-ahead
\* buffer and overlap no busy interval, none omitted and none added, and
\* nothing when the duration exceeds the window's span
C21_ExactlyFreeCandidates ==
  GridDone =>
    /\ {BlockStart(blocks[i]) : i \in 1..Len(blocks)} = ExpectedStarts
    /\ Len(blocks) = Cardinality(ExpectedStarts)
    /\ \A i, j \in 1..Len(blocks) : i < j => BlockStart(blocks[i]) < BlockStart(blocks[j])
    /\ \A i \in 1..Len(blocks) :
         /\ blocks[i].date = args.date
         /\ BlockEnd(blocks[i]) = BlockStart(blocks[i]) + args.durationMinutes
    /\ (args.durationMinutes > WindowEnd(args.date, args.slotName)
                                 - WindowStart(args.date, args.slotName)
          => blocks = <<>>)

\* a search of today's window in which the buffer rejects the first candidates,
\* a busy interval rejects a later one and the last candidate, ending exactly
\* at the window's end, is returned
C21_Witness ==
  /\ GridDone
  /\ Len(blocks) >= 2
  /\ BlockEnd(blocks[Len(blocks)]) = WindowEnd(args.date, args.slotName)
  /\ WindowStart(args.date, args.slotName) <= now + 30
  /\ \E e \in calendarEvents :
       /\ e.startDateTime > now + 30
       /\ e.startDateTime >= WindowStart(args.date, args.slotName)
       /\ e.startDateTime < WindowEnd(args.date, args.slotName)

(* ---------------- Recurring Date Generator: N sessions per week ---------------- *)

\* the index offsets a cadence takes within a window of 7 dates
WeekOffsets(cadence) == IF cadence = "3x/week" THEN {0, 2, 4} ELSE {0, 3}

CallValidDates == validDatesFor(args.weekendOnly)

\* 0-based indexes into validDates that lie at the cadence's offsets of the
\* successive 7-date windows starting at the first date and whose date is on
\* or before the deadline
AllowedIndexes ==
  { i \in args.firstIndex..(Len(CallValidDates) - 1) :
      /\ (i - args.firstIndex) % 7 \in WeekOffsets(CadenceOf(goal.frequency))
      /\ (goal.deadline # NullDate => at(CallValidDates, i) <= goal.deadline) }

\* the n smallest elements of a set of indexes
Smallest(S, n) == {i \in S : Cardinality({j \in S : j < i}) < n}

\* C22: for a 3x/week cadence the dates returned are the dates of validDates at
\* the index offsets {0, 2, 4} of each successive 7-date window starting at the
\* first date, for 2x/week at the offsets {0, 3}: the first maxCount of them, in
\* increasing order without duplicates, never more than 3 (resp. 2) per window
C22_NxWeekOffsets ==
  (DatesDone /\ CadenceOf(goal.frequency) \in {"3x/week", "2x/week"}) =>
    LET expected == Smallest(AllowedIndexes, eventCount)
        perWeek  == Cardinality(WeekOffsets(CadenceOf(goal.frequency)))
    IN  /\ Len(recurringDates) = Cardinality(expected)
        /\ {recurringDates[n] : n \in 1..Len(recurringDates)}
             = {at(CallValidDates, i) : i \in expected}
        /\ \A m, n \in 1..Len(recurringDates) : m < n => recurringDates[m] < recurringDates[n]
        /\ Len(recurringDates) <= eventCount
        /\ \A w \in 0..4 :
             Cardinality({n \in 1..Len(recurringDates) :
                            (indexOf(CallValidDates, recurringDates[n]) - args.firstIndex) \div 7 = w})
               <= perWeek

\* a 3x/week goal without deadline gets all 12 dates of four windows, the
\* fourth date one window after the first
C22_Witness ==
  /\ DatesDone
  /\ CadenceOf(goal.frequency) = "3x/week"
  /\ eventCount = 12
  /\ Len(recurringDates) = 12
  /\ indexOf(CallValidDates, recurringDates[2]) = args.firstIndex + 2
  /\ indexOf(CallValidDates, recurringDates[4]) = args.firstIndex + 7

(* ---------------- Multi-Session Distributor: fallback to other day-parts ---------------- *)

\* the dates the Recurring Date Generator chose for a TimeOption
OptionDates(option) ==
  getRecurringDates(goal.frequency, slotsByPreference[option.timeSlot][1].date,
                    validDatesFor(weekendOnlyOf(goal)), goal.deadline, result.eventCount)

\* the sessions a TimeOption has to hold
SessionsNeeded == totalSessionsNeededOf(goal, result.eventCount)

\* the distributor came to the date: the option was not yet full
DateReached(option, date) ==
  \/ Len(option.events) < SessionsNeeded
  \/ date <= option.events[Len(option.events)].date

\* the day-parts other than pref that have a free block on the date, by rank
OtherDayParts(date, pref) ==
  {n \in 1..3 : SlotNames[n] # pref /\ Len(BlocksFound(date, SlotNames[n])) > 0}

\* a reached date without free block in the option's own day-part
FallbackDate(option, date) ==
  /\ DateReached(option, date)
  /\ Len(BlocksFound(date, option.timeSlot)) = 0

CeilingOf(a, b) == CHOOSE n \in 0..a : n * b >= a /\ (n = 0 \/ (n - 1) * b < a)

\* the sessions a goal needs: ceil(targetAmount / sessionDuration) for a goal
\* with a session length and a target amount, else the planner's event count
NeededSessions ==
  IF goal.session_duration # NoNumber /\ goal.target_amount # NoNumber
  THEN CeilingOf(goal.target_amount, goal.session_duration)
  ELSE result.eventCount

\* an event of a TimeOption that lies outside the option's own day-part
IsFallbackEvent(option, e) ==
  \/ timeToMinutes(e.startTime) < timeToMinutes(TIME_SLOTS[option.timeSlot].start)
  \/ timeToMinutes(e.startTime) >= timeToMinutes(TIME_SLOTS[option.timeSlot].end)

\* C24: every TimeOption holds between 1 and totalSessionsNeeded events, with
\* totalSessionsNeeded = ceil(targetAmount / sessionDuration) for a goal with
\* session duration and target amount and the planner's event count otherwise;
\* sessions taken from other day-parts never push the count above it
C24_SessionsWithinNeeded ==
  PlanBuilt =>
    \A o \in 1..Len(TimeOptions) :
      /\ Len(TimeOptions[o].events) >= 1
      /\ Len(TimeOptions[o].events) <= NeededSessions
      /\ TimeOptions[o].totalEvents = Len(TimeOptions[o].events)

\* a TimeOption filled to the sessions needed by a session from another
\* day-part, with chosen dates left over
C24_Witness ==
  /\ PlanBuilt
  /\ \E o \in 1..Len(TimeOptions) :
       LET option == TimeOptions[o]
       IN  /\ Len(option.events) = NeededSessions
           /\ NeededSessions >= 2
           /\ IsFallbackEvent(option, option.events[Len(option.events)])
           /\ Len(OptionDates(option)) > Len(option.events)

(* ---------------- planning query followed by schedule-recurring ---------------- *)

\* recurring goals with one session a day at most, whose sessions are
\* submitted as one recurring calendar entry
ScheduleGoals ==
  [frequency : {"daily", "weekly", "3x per week", "2x per week"},
   deadline : {NullDate, Today + 6, Today + MaxDeadlineAhead},
   time_preferences : {{}, {"morning"}},
   max_sessions_per_day : {NoNumber},
   target_amount : {NoNumber},
   target_unit : {"hour"},
   session_duration : {NoNumber},
   distribution_strategy : {NULL}]

InitSchedule ==
  /\ tz \in TzOffsets
  /\ now \in PlanNows
  /\ calendarEvents \in PlanEventSets
  /\ goal \in ScheduleGoals
  /\ args = [op |-> "find-slots"]
  /\ pc = "call"
  /\ blocks = <<>>
  /\ eventCount = 0
  /\ recurringDates = <<>>
  /\ slots = <<>>
  /\ slotsByPreference = NoSlots
  /\ result = NoResult
  /\ response = NoResponse
  /\ OtherCallsIdle

\* the client submits the sessions of one of the TimeOptions it was offered
\* and the handler builds the calendar entry from them
ScheduleOption ==
  /\ pc = "built"
  /\ args.op = "find-slots"
  /\ \E o \in 1..Len(result.timeOptions) :
       /\ args' = [op |-> "schedule-recurring", events |-> result.timeOptions[o].events]
       /\ rrule' = scheduleRecurring(goal, result.timeOptions[o].events)
  /\ pc' = "done"
  /\ UNCHANGED <<tz, now, calendarEvents, goal, blocks, eventCount, recurringDates,
                 slots, planVars, parsed, duration, secondResult, elapsed>>

NextSchedule == DetectScan \/ DetectBuild \/ ScheduleOption

SpecSchedule == InitSchedule /\ [][NextSchedule]_vars

\* days after the first session over which a rule's occurrences are enumerated
RuleHorizon == 40

\* first occurrence of the rule: the first submitted session
AnchorDate == args.events[1].date

AnchorTime == args.events[1].startTime

\* the local dates of the occurrences an unbounded rule denotes from its first
\* occurrence on (RFC 5545: DTSTART is the first occurrence, FREQ=DAILY recurs
\* every day, FREQ=WEEKLY;BYDAY on the listed weekdays of every week)
UnboundedRuleDates ==
  { d \in AnchorDate..(AnchorDate + RuleHorizon) :
      \/ d = AnchorDate
      \/ rrule.freq = "DAILY"
      \/ \E n \in 1..Len(rrule.byday) : rrule.byday[n] = dayOfWeekCode(d * DayMinutes) }

\* the dates of the occurrences of the rule: the first COUNT of them, or those
\* starting on or before the UNTIL instant
RuleDates ==
  IF rrule.until # NoUntil
  THEN { d \in UnboundedRuleDates :
           DateTimeLocal(d, AnchorTime)
             <= rrule.until.date * DayMinutes + rrule.until.minutes + tz }
  ELSE Smallest(UnboundedRuleDates, rrule.count)

\* C25: the occurrences denoted by the rule of a recurring calendar entry,
\* anchored at the first session's date and start time, are exactly the
\* (date, startTime) pairs of the submitted sessions of the TimeOption
C25_RuleDenotesSessions ==
  RuleBuilt =>
    {<<d, AnchorTime>> : d \in RuleDates}
      = {<<args.events[i].date, args.events[i].startTime>> : i \in 1..Len(args.events)}

(* ---------------- planning query for long targets ---------------- *)

\* goals whose whole target takes up to 10 hours, with and without session length
LongGoals ==
  [frequency : {NULL, "daily"},
   deadline : {NullDate},
   time_preferences : {{}, {"evening"}},
   max_sessions_per_day : {NoNumber},
   target_amount : {2, 6, 7, 10},
   target_unit : {"hour", "km"},
   session_duration : {NoNumber, 2},
   distribution_strategy : {NULL}]

InitLong ==
  /\ tz \in TzOffsets
  /\ now \in PlanNows
  /\ calendarEvents \in PlanEventSets
  /\ goal \in LongGoals
  /\ args = [op |-> "find-slots"]
  /\ pc = "call"
  /\ blocks = <<>>
  /\ eventCount = 0
  /\ recurringDates = <<>>
  /\ slots = <<>>
  /\ slotsByPreference = NoSlots
  /\ result = NoResult
  /\ response = NoResponse
  /\ OtherCallsIdle

SpecLong == InitLong /\ [][NextPlan]_vars

\* minutes one unit of the target stands for
MinutesPerUnit == IF goal.target_unit = "hour" THEN 60 ELSE 30

\* the goal's whole target in minutes
WholeTargetMinutes == goal.target_amount * MinutesPerUnit

C27_AlternativesSameDuration ==
  PlanDone =>
    \A a \in 1..Len(response.alternatives) :
      \A o \in 1..Len(TimeOptions) : \A i \in 1..Len(TimeOptions[o].events) :
        response.alternatives[a].durationMinutes = TimeOptions[o].events[i].durationMinutes

(* ---------------- insufficiency query: sessions needed ---------------- *)

\* C28: for a goal without session duration the sessionsNeeded of a find-slots
\* response equals the event count the engine planned with, whatever the
\* cadence, the deadline and the time of day of the query; a daily goal with a
\* deadline not yet passed and an empty busy set is not reported incomplete
C28_NeededIsPlannedCount ==
  (PlanDone /\ goal.session_duration = NoNumber) =>
    /\ response.sessionsNeeded = result.eventCount
    /\ ((/\ CadenceOf(goal.frequency) = "daily"
         /\ goal.deadline # NullDate
         /\ goal.deadline >= Today
         /\ calendarEvents = {})
        => ~ response.incomplete)

(* ---------------- ad-hoc slot finder: end of a slot ---------------- *)

\* C29: every slot of the ad-hoc finder ends on the calendar day it starts on
\* and no later than the window's end hour workEnd:00, whatever the duration
\* and also for the one-hour windows of exact times
C29_SlotEndsWithinWindow ==
  SlotsDone =>
    \A i \in 1..Len(slots) :
      slots[i].end <= StartOfDay(slots[i].start) + SearchWorkEnd * 60

(* ---------------- Multi-Session Distributor: sessions per date ---------------- *)

\* goal.max_sessions_per_day, 1 when the goal sets none
MaxPerDay == IF goal.max_sessions_per_day = NoNumber THEN 1 ELSE goal.max_sessions_per_day

====
